---- MODULE Spec2Model ----
(***************************************************************************)
(* Bulk transfer engine of the DynamoDB -> Supabase importers.             *)
(*                                                                         *)
(*   scripts/fast-parallel-import.py        (PAR: thread pool per table)   *)
(*   scripts/import-dynamodb-to-supabase.py (SEQ: one batch after another) *)
(*                                                                         *)
(* One state machine covers both scripts; `program` says which one runs.   *)
(* The main thread is followed statement block by statement block (pc),    *)
(* every worker of the pool request by request, and the lock-guarded       *)
(* progress update load by load and store by store.                        *)
(***************************************************************************)
EXTENDS Integers, Sequences, FiniteSets, TLC

\* ---------------------------------------------------------------- bounds
\* Two shapes of run are explored.  A single-table run (--table) over a table
\* of up to MaxItems items, and a run over a list of NumTables tables
\* (--all-firespring) of up to RunMaxItems items each.
MaxItems == 5       \* items of the table of a single-table run
MaxPages == 2       \* pages a table scan may need
MaxPageLen == 3     \* items a page may hold
MaxWorkers == 2     \* largest --workers value tried
ParBatchSize == 2   \* stands for BATCH_SIZE = 100 in a single-table run
MaxBatchSize == 2   \* largest --batch-size value tried (sequential importer)
NumTables == 2      \* length of tables_to_import in a list run
RunMaxItems == 2    \* items of each table of a list run
\* The number of error details a summary keeps: stands for the 10 of
\* `all_errors[:10]`, which no table of MaxItems items reaches.
MaxErrorDetails == 2
RunBatchSize == 1   \* batch size in a list run

\* ------------------------------------------------------ program constants
RETRY_ATTEMPTS_PAR == 2
RETRY_ATTEMPTS_SEQ == 3
RETRY_DELAY_PAR == 1
RETRY_DELAY_SEQ == 2

PAR == "fast-parallel-import"
SEQ == "import-dynamodb-to-supabase"
NoKey == <<>>       \* no LastEvaluatedKey in the response (falsy)
Key(p) == <<p>>     \* the cursor that resumes the scan at page p (truthy)

VARIABLES
    program,        \* which script runs
    tables_to_import, \* main: tables_to_import (table names are 1, 2, ...)
    max_items,      \* source side: no table holds more items than this
    num_workers,    \* args.workers
    BATCH_SIZE,     \* module global BATCH_SIZE
    dry_run,        \* args.dry_run (SEQ)
    pc,             \* position of the main thread
    ti,             \* index into tables_to_import of the table being imported
    dynamo,         \* source side: the pages of the current table served so far
    last_key,       \* last_key / last_evaluated_key
    items,          \* items / raw_items
    scans,          \* ExclusiveStartKey of every scan request of the current table
    converted,      \* converted / converted_items
    batches,        \* batches (PAR)
    pool,           \* the ThreadPoolExecutor of the current table (PAR)
    futures,        \* one frame per submitted batch (PAR)
    progress_lock,  \* batch number of the holder of progress_lock, 0 when free
    progress_stats, \* progress_stats
    log,            \* per record of the current table: outcomes of its POSTs
    call,           \* frame of the running send_to_supabase call (SEQ)
    bi,             \* loop position i of the batch loop, as a batch number (SEQ)
    total_success,  \* import_table*: total_success
    total_failed,   \* import_table*: total_failed
    all_errors,     \* import_table: all_errors (SEQ)
    results,        \* main: results
    scan_errors,    \* tables whose scan request raised (source side)
    exit_code,      \* value returned by main, -1 until it returns
    corrupt,        \* source side: what is wrong with which item (by number)
    timed,          \* whether the waits of the retry loops are followed
    raw_value,      \* a decoder taken alone: the value it is applied to
    decoded         \* a decoder taken alone: what the call returned or raised

vars == <<program, tables_to_import, max_items, num_workers, BATCH_SIZE,
          dry_run, pc, ti, dynamo, last_key,
          items, scans, converted, batches, pool, futures, progress_lock,
          progress_stats, log, call, bi, total_success, total_failed, all_errors,
          results, scan_errors, exit_code, corrupt, timed, raw_value, decoded>>

\* --------------------------------------------------------------- helpers
RETRY_ATTEMPTS == IF program = PAR THEN RETRY_ATTEMPTS_PAR ELSE RETRY_ATTEMPTS_SEQ

RECURSIVE Flatten(_)
Flatten(pages) ==
    IF pages = <<>> THEN <<>>
    ELSE pages[1].Items \o Flatten(Tail(pages))

Min(a, b) == IF a < b THEN a ELSE b


\* Python range(i, n, step) for step # 0, as the loop produces it: upwards to
\* below n for a positive step, downwards to above n for a negative one.
RECURSIVE RangeFrom(_, _, _)
RangeFrom(i, n, step) ==
    IF (step > 0 /\ i >= n) \/ (step < 0 /\ i <= n) THEN <<>>
    ELSE <<i>> \o RangeFrom(i + step, n, step)

\* Mutant of Slice: the end index taken as inclusive.
Slice_Inclusive(seq, i, j) == SubSeq(seq, i + 1, Min(j + 1, Len(seq)))

\* Python slice seq[i:j] (0-based, end exclusive, clipped to the length).
Slice(seq, i, j) == SubSeq(seq, i + 1, Min(j, Len(seq)))

\* ----------------------------------------------------------------- source
\* A raw item as DynamoDB returns it: one attribute `id`, number-tagged.
RawItem(k) == [id |-> [N |-> k]]

\* The page the service returns for a scan request with ExclusiveStartKey `key`
\* (NoKey: none passed).  A cursor names the page it resumes at; a page already
\* served is served again unchanged, a page not yet served is a fresh choice
\* of 0..MaxPageLen items and of whether a further page follows.
PageAsked(key) == IF key = NoKey THEN 1 ELSE key[1]

FreshPages ==
    LET p == Len(dynamo) + 1
        first == Len(Flatten(dynamo))
    IN  { [Items |-> [j \in 1..n |-> RawItem(first + j)], LastEvaluatedKey |-> k] :
            n \in 0..Min(MaxPageLen, max_items - first),
            k \in {NoKey} \cup (IF p < MaxPages THEN {Key(p + 1)} ELSE {}) }

Responses(key) ==
    IF PageAsked(key) <= Len(dynamo) THEN {dynamo[PageAsked(key)]} ELSE FreshPages

\* ---------------------------------------------------------- Python values
\* A Python value is a pair <<type, payload>>:
\*   "str", "bytes"   the sequence of its characters
\*   "int", "float"   <<m, e>>, the number m * 10^e with m no multiple of 10
\*                    (<<0, 0>> for zero)
\*   "Decimal"        <<sign, int, exp>>, as decimal.Decimal keeps a number:
\*                    (-1)^sign * int * 10^exp
\*   "bool"           TRUE or FALSE
\*   "None"           <<>>
\*   "list"           the sequence of its elements
\*   "dict"           the function from its keys (strings) to its values
\* and <<"raise", exception>> is a call left by an exception.
TypeOf(x) == x[1]
Val(x) == x[2]

PyStr(chars) == <<"str", chars>>
PyBytes(chars) == <<"bytes", chars>>
PyInt(n) == <<"int", n>>
PyFloat(n) == <<"float", n>>
PyDecimal(sign, int, exp) == <<"Decimal", <<sign, int, exp>>>>
PyBool(b) == <<"bool", b>>
PyNone == <<"None", <<>>>>
PyList(elems) == <<"list", elems>>
PyDict(f) == <<"dict", f>>
InvalidOperation == <<"raise", "decimal.InvalidOperation">>

\* The single-member dict {tag: payload}.
Tagged(tag, payload) == PyDict(tag :> payload)

Raised(x) == TypeOf(x) = "raise"

\* The exception that leaves a loop or comprehension over `outcomes`, when
\* one of them raised.
Propagated(outcomes) == CHOOSE x \in outcomes : Raised(x)

\* --------------------------------------------------------- decimal.Decimal
DigitChars == {"0", "1", "2", "3", "4", "5", "6", "7", "8", "9"}

DigitValue(c) ==
    CASE c = "0" -> 0 [] c = "1" -> 1 [] c = "2" -> 2 [] c = "3" -> 3
      [] c = "4" -> 4 [] c = "5" -> 5 [] c = "6" -> 6 [] c = "7" -> 7
      [] c = "8" -> 8 [] c = "9" -> 9

RECURSIVE DigitsValue(_)
DigitsValue(ds) ==
    IF ds = <<>> THEN 0
    ELSE 10 * DigitsValue(SubSeq(ds, 1, Len(ds) - 1)) + DigitValue(ds[Len(ds)])

IsDigits(s) == \A i \in 1..Len(s) : s[i] \in DigitChars

\* Index of the first character of s that is in chars, 0 when there is none.
FirstIndex(s, chars) ==
    IF \E i \in 1..Len(s) : s[i] \in chars
    THEN CHOOSE i \in 1..Len(s) :
            s[i] \in chars /\ \A j \in 1..(i - 1) : s[j] \notin chars
    ELSE 0

Signed(s) == s # <<>> /\ s[1] \in {"+", "-"}

Unsigned(s) == IF Signed(s) THEN Tail(s) ELSE s

\* Decimal(text) for the text of a str: [sign] digits [. digits] [e [sign]
\* digits], at least one digit before the exponent; anything else raises
\* decimal.InvalidOperation (ConversionSyntax).  The characters of the model's
\* strings spell neither "Infinity" nor "NaN" and hold no blank or underscore.
Decimal(text) ==
    LET body == Unsigned(text)
        ePos == FirstIndex(body, {"e", "E"})
        mant == IF ePos = 0 THEN body ELSE SubSeq(body, 1, ePos - 1)
        expo == IF ePos = 0 THEN <<>> ELSE SubSeq(body, ePos + 1, Len(body))
        dot == FirstIndex(mant, {"."})
        intpart == IF dot = 0 THEN mant ELSE SubSeq(mant, 1, dot - 1)
        fracpart == IF dot = 0 THEN <<>> ELSE SubSeq(mant, dot + 1, Len(mant))
        expdigits == Unsigned(expo)
        ok == /\ IsDigits(intpart)
              /\ IsDigits(fracpart)
              /\ Len(intpart) + Len(fracpart) >= 1
              /\ ePos = 0 \/ (expdigits # <<>> /\ IsDigits(expdigits))
        expval == IF Signed(expo) /\ expo[1] = "-"
                  THEN 0 - DigitsValue(expdigits) ELSE DigitsValue(expdigits)
    IN  IF ok
        THEN PyDecimal(IF Signed(text) /\ text[1] = "-" THEN 1 ELSE 0,
                       DigitsValue(intpart \o fracpart), expval - Len(fracpart))
        ELSE InvalidOperation

\* decimal.getcontext().prec, the precision of the default context.
prec == 28

RECURSIVE NumDigits(_)
NumDigits(n) == IF n < 10 THEN 1 ELSE 1 + NumDigits(n \div 10)

RECURSIVE TrailingZeros(_)
TrailingZeros(n) == IF n % 10 # 0 THEN 0 ELSE 1 + TrailingZeros(n \div 10)

\* Decimal.adjusted(): the exponent of the most significant digit.
adjusted(num) == NumDigits(Val(num)[2]) - 1 + Val(num)[3]

\* `num % 1` raises decimal.InvalidOperation (DivisionImpossible) when the
\* integer quotient of a non-zero num has more than prec digits.
DivisionImpossible(num) == Val(num)[2] # 0 /\ adjusted(num) >= prec

\* `num % 1 == 0`, when the remainder is computed.
RemainderIsZero(num) ==
    \/ Val(num)[2] = 0
    \/ Val(num)[3] >= 0
    \/ TrailingZeros(Val(num)[2]) >= 0 - Val(num)[3]

\* The number (-1)^sign * int * 10^exp as <<m, e>> with m no multiple of 10.
RECURSIVE Normal(_, _, _)
Normal(sign, int, exp) ==
    IF int = 0 THEN <<0, 0>>
    ELSE IF int % 10 = 0 THEN Normal(sign, int \div 10, exp + 1)
    ELSE <<IF sign = 1 THEN 0 - int ELSE int, exp>>

\* Mutant of IntOrFloat: any Decimal with a negative exponent becomes a float.
IntOrFloat_ByExponent(num) ==
    IF DivisionImpossible(num) THEN InvalidOperation
    ELSE IF Val(num)[3] >= 0 THEN PyInt(Normal(Val(num)[1], Val(num)[2], Val(num)[3]))
    ELSE PyFloat(Normal(Val(num)[1], Val(num)[2], Val(num)[3]))

\* `int(num) if num % 1 == 0 else float(num)`
IntOrFloat(num) ==
    IF DivisionImpossible(num) THEN InvalidOperation
    ELSE IF RemainderIsZero(num) THEN PyInt(Normal(Val(num)[1], Val(num)[2], Val(num)[3]))
    ELSE PyFloat(Normal(Val(num)[1], Val(num)[2], Val(num)[3]))

\* `num = Decimal(value['N'])` followed by the int/float choice.
NumberOf(str) ==
    IF Raised(Decimal(Val(str))) THEN InvalidOperation ELSE IntOrFloat(Decimal(Val(str)))

\* `float(Decimal(n))`
FloatOf(str) ==
    LET num == Decimal(Val(str))
    IN  IF Raised(num) THEN InvalidOperation
        ELSE PyFloat(Normal(Val(num)[1], Val(num)[2], Val(num)[3]))

\* Mutant of FloatList: the members of a number set follow the int/float rule.
FloatList_IntOrFloat(strs) ==
    LET out == [k \in 1..Len(Val(strs)) |-> NumberOf(Val(strs)[k])]
    IN  IF \E k \in 1..Len(out) : Raised(out[k])
        THEN Propagated({out[k] : k \in 1..Len(out)})
        ELSE PyList(out)

\* `[float(Decimal(n)) for n in value['NS']]`
FloatList(strs) ==
    LET out == [k \in 1..Len(Val(strs)) |-> FloatOf(Val(strs)[k])]
    IN  IF \E k \in 1..Len(out) : Raised(out[k])
        THEN Propagated({out[k] : k \in 1..Len(out)})
        ELSE PyList(out)

\* ------------------------------------------------------------ the decoders
\* The payload of a tag has the Python type the wire format gives it: a str
\* under N, a list of str under SS and NS, a dict under M, a list under L.
RECURSIVE par_convert_dynamodb_item(_)
RECURSIVE par_convert_value(_)
RECURSIVE seq_convert_dynamodb_item(_)
RECURSIVE convert_dynamodb_value(_)

\* A dict built key by key from `out`, or the exception that ended the loop.
DictOrRaise(out) ==
    IF \E k \in DOMAIN out : Raised(out[k])
    THEN Propagated({out[k] : k \in DOMAIN out})
    ELSE PyDict(out)

\* A list built element by element from `out`, or the exception that ended it.
ListOrRaise(out) ==
    IF \E k \in 1..Len(out) : Raised(out[k])
    THEN Propagated({out[k] : k \in 1..Len(out)})
    ELSE PyList(out)

\* Mutant of ListElement: the element is handed over without conversion.
ListElement_Raw(i) == i

\* fast-parallel-import.py: `convert_dynamodb_item({'t': i})['t']`
ListElement(i) ==
    LET conv == par_convert_dynamodb_item(PyDict([t |-> i]))
    IN  IF Raised(conv) THEN conv ELSE Val(conv)["t"]

\* fast-parallel-import.py: the body of the loop of convert_dynamodb_item, for
\* one value of the item; the result is what is stored in result[key].
par_convert_value(value) ==
    IF TypeOf(value) = "dict"
    THEN LET d == Val(value)
             tags == DOMAIN d
         IN  IF "S" \in tags THEN d["S"]
             ELSE IF "N" \in tags THEN NumberOf(d["N"])
             ELSE IF "BOOL" \in tags THEN d["BOOL"]
             ELSE IF "NULL" \in tags THEN PyNone
             ELSE IF "SS" \in tags THEN d["SS"]
             ELSE IF "NS" \in tags THEN FloatList(d["NS"])
             ELSE IF "M" \in tags THEN par_convert_dynamodb_item(d["M"])
             ELSE IF "L" \in tags
                  THEN ListOrRaise([k \in 1..Len(Val(d["L"])) |-> ListElement(Val(d["L"])[k])])
             ELSE value
    ELSE IF TypeOf(value) = "Decimal" THEN IntOrFloat(value)
    ELSE value

\* fast-parallel-import.py: convert_dynamodb_item
par_convert_dynamodb_item(item) ==
    DictOrRaise([key \in DOMAIN Val(item) |-> par_convert_value(Val(item)[key])])

\* import-dynamodb-to-supabase.py: convert_dynamodb_value
convert_dynamodb_value(value) ==
    IF TypeOf(value) = "dict"
    THEN LET d == Val(value)
             tags == DOMAIN d
         IN  IF "S" \in tags THEN d["S"]
             ELSE IF "N" \in tags THEN NumberOf(d["N"])
             ELSE IF "B" \in tags THEN d["B"]
             ELSE IF "SS" \in tags THEN d["SS"]
             ELSE IF "NS" \in tags THEN FloatList(d["NS"])
             ELSE IF "BS" \in tags THEN d["BS"]
             ELSE IF "M" \in tags THEN seq_convert_dynamodb_item(d["M"])
             ELSE IF "L" \in tags
                  THEN ListOrRaise([k \in 1..Len(Val(d["L"])) |->
                                       convert_dynamodb_value(Val(d["L"])[k])])
             ELSE IF "NULL" \in tags THEN PyNone
             ELSE IF "BOOL" \in tags THEN d["BOOL"]
             ELSE DictOrRaise([k \in tags |-> convert_dynamodb_value(d[k])])
    ELSE IF TypeOf(value) = "list"
    THEN ListOrRaise([k \in 1..Len(Val(value)) |-> convert_dynamodb_value(Val(value)[k])])
    ELSE IF TypeOf(value) = "Decimal" THEN IntOrFloat(value)
    ELSE value

\* import-dynamodb-to-supabase.py: convert_dynamodb_item
seq_convert_dynamodb_item(item) ==
    DictOrRaise([key \in DOMAIN Val(item) |-> convert_dynamodb_value(Val(item)[key])])

\* ------------------------------------------------------- items on the wire
\* The decimal text of a natural number.
RECURSIVE NatText(_)
NatText(n) ==
    LET digit == CHOOSE c \in DigitChars : DigitValue(c) = n % 10
    IN  IF n < 10 THEN <<digit>> ELSE Append(NatText(n \div 10), digit)

\* What can be wrong with an item: "number", a number attribute whose text is
\* no number; "tag", an attribute whose value carries no known tag.
FaultKinds == {"number", "tag"}

\* The attribute `data` of item k as the scan returns it.
DataOf(k) ==
    IF k \notin DOMAIN corrupt THEN Tagged("S", PyStr(<<"v">>))
    ELSE IF corrupt[k] = "number" THEN Tagged("N", PyStr(<<"1", "2", "a">>))
    ELSE PyDict("X" :> PyStr(<<"v">>))

\* The raw item in full, as the decoders receive it.
WireItem(item) ==
    PyDict([id |-> Tagged("N", PyStr(NatText(item.id.N))), data |-> DataOf(item.id.N)])

\* `convert_dynamodb_item(item)` of the running script.
Converted(item) ==
    IF program = PAR THEN par_convert_dynamodb_item(WireItem(item))
    ELSE seq_convert_dynamodb_item(WireItem(item))

\* The conversion loop over `raw` is left by an exception.
ConversionRaises(raw) == \E j \in 1..Len(raw) : Raised(Converted(raw[j]))

\* --------------------------------------------------------------- decoding
\* convert_dynamodb_item as the transfer sees it: on an item whose attributes
\* are number-tagged, the number text of k being written k.
convert_dynamodb_item(item) == [a \in DOMAIN item |-> item[a].N]

ConvertAll(raw) == [j \in 1..Len(raw) |-> convert_dynamodb_item(raw[j])]

\* Sequential importer: the converted item also carries its source table.
ConvertAllSeq(raw, table) ==
    [j \in 1..Len(raw) |->
        [id |-> convert_dynamodb_item(raw[j]).id, _source_table |-> table]]

\* --------------------------------------------------------------- batching
\* Mutant of TotalBatches: floor instead of ceiling division.
TotalBatches_Floor(n, size) == n \div size

\* total_batches = (len(converted) + BATCH_SIZE - 1) // BATCH_SIZE
TotalBatches(n, size) == (n + size - 1) \div size

\* The batch tuple built for loop position i.
BatchAt(conv, i, size, table) ==
    [batch_num |-> (i \div size) + 1,
     total_batches |-> TotalBatches(Len(conv), size),
     records |-> Slice(conv, i, i + size),
     table_name |-> table]

CreateBatches(conv, size, table) ==
    LET idx == RangeFrom(0, Len(conv), size)
    IN  [k \in 1..Len(idx) |-> BatchAt(conv, idx[k], size, table)]

\* ------------------------------------------------------------------- Init
\* No send_to_supabase call is running.
NoCall == [pc |-> "idle"]

SingleTableRun ==
    /\ tables_to_import = <<1>>
    /\ max_items = MaxItems
    /\ BATCH_SIZE \in (IF program = PAR THEN {ParBatchSize} ELSE 1..MaxBatchSize)

TableListRun ==
    /\ tables_to_import = [k \in 1..NumTables |-> k]
    /\ max_items = RunMaxItems
    /\ BATCH_SIZE = RunBatchSize

\* No decoder call is followed on its own.
Pending == <<"pending", <<>>>>

NoDecoderCall ==
    /\ raw_value = PyNone
    /\ decoded = Pending

\* main before the first iteration of the table loop.
EngineStart ==
    /\ pc = "scan"
    /\ ti = 1
    /\ dynamo = <<>>
    /\ last_key = NoKey
    /\ items = <<>>
    /\ scans = <<>>
    /\ converted = <<>>
    /\ batches = <<>>
    /\ pool = "none"
    /\ futures = <<>>
    /\ progress_lock = 0
    /\ progress_stats = <<>>
    /\ log = <<>>
    /\ call = NoCall
    /\ bi = 0
    /\ total_success = 0
    /\ total_failed = 0
    /\ all_errors = <<>>
    /\ results = <<>>
    /\ scan_errors = {}
    /\ exit_code = -1

\* A run with a valid configuration over well-formed items, time not followed.
Init ==
    /\ program \in {PAR, SEQ}
    /\ SingleTableRun \/ TableListRun
    /\ num_workers \in (IF program = PAR THEN 1..MaxWorkers ELSE {1})
    /\ dry_run \in (IF program = PAR THEN {FALSE} ELSE BOOLEAN)
    /\ corrupt = <<>>
    /\ timed = FALSE
    /\ EngineStart
    /\ NoDecoderCall

inputs ==
    <<program, tables_to_import, max_items, num_workers, BATCH_SIZE, dry_run,
      corrupt, timed>>
decodervars == <<raw_value, decoded>>
scanvars == <<dynamo, last_key, items, scans>>
poolvars == <<pool, futures, progress_lock, progress_stats>>
tablevars == <<converted, batches, log, call, bi, total_success, total_failed, all_errors>>

\* --------------------------------------------------------------- the scan
\* One iteration of the `while True` scan loop: the request (with the cursor
\* when there is one), items.extend, the new cursor, and the exit test.
\* Mutant of ExclusiveStartKey: the cursor is never passed on.
NoStartKey == NoKey

\* `if last_key: scan_kwargs['ExclusiveStartKey'] = last_key`
ExclusiveStartKey == last_key

\* Mutant of ScanStep: the scan loop is left after its first page, whether
\* the response carries a cursor or not.
ScanStep_FirstPageOnly ==
    /\ pc = "scan"
    /\ \E resp \in Responses(ExclusiveStartKey) :
        /\ dynamo' = IF PageAsked(ExclusiveStartKey) <= Len(dynamo) THEN dynamo
                     ELSE Append(dynamo, resp)
        /\ scans' = Append(scans, ExclusiveStartKey)
        /\ items' = items \o resp.Items
        /\ last_key' = resp.LastEvaluatedKey
        /\ pc' = "scanned"
    /\ UNCHANGED <<decodervars, inputs, ti, poolvars, tablevars, results, scan_errors, exit_code>>

ScanStep ==
    /\ pc = "scan"
    /\ \E resp \in Responses(ExclusiveStartKey) :
        /\ dynamo' = IF PageAsked(ExclusiveStartKey) <= Len(dynamo) THEN dynamo
                     ELSE Append(dynamo, resp)
        /\ scans' = Append(scans, ExclusiveStartKey)
        /\ items' = items \o resp.Items
        /\ last_key' = resp.LastEvaluatedKey
        /\ pc' = IF resp.LastEvaluatedKey = NoKey THEN "scanned" ELSE "scan"
    /\ UNCHANGED <<decodervars, inputs, ti, poolvars, tablevars, results, scan_errors, exit_code>>

ScanPar == program = PAR /\ ScanStep

ScanSeq == program = SEQ /\ ScanStep

\* The state of the next iteration of `for table in tables_to_import`, or of
\* the summary when the list is exhausted; fresh locals for the next call.
\* The frames of the pool just left stay as they are: leaving the function
\* does not stop a thread.
NextTable ==
    /\ ti' = ti + 1
    /\ pc' = IF ti < Len(tables_to_import) THEN "scan" ELSE "summary"
    /\ dynamo' = <<>>
    /\ last_key' = NoKey
    /\ items' = <<>>
    /\ scans' = <<>>
    /\ converted' = <<>>
    /\ batches' = <<>>
    /\ log' = <<>>
    /\ call' = NoCall
    /\ bi' = 0
    /\ total_success' = 0
    /\ total_failed' = 0
    /\ all_errors' = <<>>

\* Mutant of ErrorEntry: a table that raised counts as one failed record.
ErrorEntry_CountsFailed(table) ==
    [table |-> table, error |-> TRUE, total |-> 0, success |-> 0, failed |-> 1]

ErrorEntry(table) ==
    [table |-> table, error |-> TRUE, total |-> 0, success |-> 0, failed |-> 0]

EmptyEntry(table) ==
    [table |-> table, error |-> FALSE, total |-> 0, success |-> 0, failed |-> 0]

\* Mutant of ScanRaises: the exception is not caught per table and ends the
\* table loop.
ScanRaises_AbortsRun ==
    /\ pc = "scan"
    /\ results' = Append(results, ErrorEntry(tables_to_import[ti]))
    /\ scan_errors' = scan_errors \cup {tables_to_import[ti]}
    /\ ti' = ti + 1
    /\ pc' = "summary"
    /\ UNCHANGED <<decodervars, inputs, scanvars, poolvars, tablevars, exit_code>>

\* dynamodb.scan raises: the exception leaves the per-table import, main's
\* `except Exception` appends the error entry and the table loop goes on.
ScanRaises ==
    /\ pc = "scan"
    /\ results' = Append(results, ErrorEntry(tables_to_import[ti]))
    /\ NextTable
    /\ scan_errors' = scan_errors \cup {tables_to_import[ti]}
    /\ UNCHANGED <<decodervars, inputs, poolvars, exit_code>>

ScanFailsPar == program = PAR /\ ScanRaises

ScanFailsSeq == program = SEQ /\ ScanRaises

\* Mutant of NoItems: a table without items is reported as an error.
NoItems_AsError ==
    /\ pc = "scanned"
    /\ items = <<>>
    /\ results' = Append(results, ErrorEntry(tables_to_import[ti]))
    /\ NextTable
    /\ UNCHANGED <<decodervars, inputs, poolvars, scan_errors, exit_code>>

\* `if not items: return {... 0, 0, 0}` and main's results.append(result).
NoItems ==
    /\ pc = "scanned"
    /\ items = <<>>
    /\ results' = Append(results, EmptyEntry(tables_to_import[ti]))
    /\ NextTable
    /\ UNCHANGED <<decodervars, inputs, poolvars, scan_errors, exit_code>>

NoItemsPar == program = PAR /\ NoItems

NoItemsSeq == program = SEQ /\ NoItems

\* Once the scan loop is left the table is not read again: the pages served,
\* the requests made and the cursor are dropped from the state.
ScanForgotten ==
    /\ dynamo' = <<>>
    /\ scans' = <<>>
    /\ last_key' = NoKey

\* ------------------------------------------------- parallel importer: plan
\* A record's POST outcomes so far, oldest first ("ok" for a 200 response,
\* "fail" for any other response or an exception).
NoLog(conv) == [k \in {conv[j].id : j \in 1..Len(conv)} |-> <<>>]

\* The frame of one submitted send_batch_to_supabase(batch) call.
Frame(batch) ==
    [batch_num |-> batch.batch_num, total_batches |-> batch.total_batches,
     records |-> batch.records, table_name |-> batch.table_name,
     pc |-> "queued", r |-> 1, attempt |-> 0,
     success |-> 0, failed |-> 0, tmp |-> 0, yielded |-> FALSE, waited |-> 0]

\* Convert items, create batches, open the pool and submit every batch.
PlanPar ==
    /\ program = PAR
    /\ pc = "scanned"
    /\ items # <<>>
    /\ ~ConversionRaises(items)
    /\ num_workers > 0
    /\ LET conv == ConvertAll(items)
           bs == CreateBatches(conv, BATCH_SIZE, tables_to_import[ti])
       IN  /\ converted' = conv
           /\ batches' = bs
           /\ log' = NoLog(conv)
           /\ futures' = [b \in 1..Len(bs) |-> Frame(bs[b])]
    /\ total_success' = 0
    /\ total_failed' = 0
    /\ pool' = "open"
    /\ pc' = "collect"
    /\ ScanForgotten
    /\ UNCHANGED <<decodervars, inputs, all_errors, ti, items, progress_lock, progress_stats, call, bi,
                   results, scan_errors, exit_code>>

\* ----------------------------------------------- parallel importer: worker
Running == {b \in DOMAIN futures : futures[b].pc \notin {"queued", "done", "raised"}}

\* Mutant of CanStart: a thread per batch, whatever max_workers.
CanStart_Unbounded(b) ==
    /\ futures[b].pc = "queued"
    /\ \A c \in 1..(b - 1) : futures[c].pc # "queued"

\* A pool thread takes the oldest queued batch; at most max_workers threads.
CanStart(b) ==
    /\ futures[b].pc = "queued"
    /\ \A c \in 1..(b - 1) : futures[c].pc # "queued"
    /\ Cardinality(Running) < num_workers

\* After the record loop of a frame: the next record, or the progress update.
\* `waited` is the time slept since the latest POST of the current record.
NextRecord(f) ==
    IF f.r + 1 > Len(f.records)
    THEN [f EXCEPT !.r = f.r + 1, !.attempt = 0, !.waited = 0, !.pc = "lock"]
    ELSE [f EXCEPT !.r = f.r + 1, !.attempt = 0, !.waited = 0]

\* One iteration of `for attempt in range(RETRY_ATTEMPTS)` for the current
\* record: the POST and what follows its outcome.
\*   "200"    status 200: success += 1, break
\*   "non200" another status: failed += 1 on the last attempt
\*   "exc"    requests.post raised: failed += 1 on the last attempt, sleep
Outcomes == {"200", "non200", "exc"}

\* Mutant of AfterPost: an exception on the last attempt is not counted.
AfterPost_ExcNotCounted(f, outcome) ==
    LET last == f.attempt = RETRY_ATTEMPTS_PAR - 1
    IN  IF outcome = "200"
        THEN NextRecord([f EXCEPT !.success = f.success + 1])
        ELSE LET g == IF last /\ outcome = "non200"
                      THEN [f EXCEPT !.failed = f.failed + 1] ELSE f
             IN  IF last THEN NextRecord(g)
                 ELSE [g EXCEPT !.attempt = f.attempt + 1]

\* Mutant of AfterPost: no `break` after a 200 response.
AfterPost_NoBreak(f, outcome) ==
    LET last == f.attempt = RETRY_ATTEMPTS_PAR - 1
        g == IF outcome = "200" THEN [f EXCEPT !.success = f.success + 1]
             ELSE IF last THEN [f EXCEPT !.failed = f.failed + 1] ELSE f
    IN  IF last THEN NextRecord(g) ELSE [g EXCEPT !.attempt = f.attempt + 1]

\* time.sleep(RETRY_DELAY) stands in the `except` branch only: the time slept
\* after a POST that ended with `outcome`, when the run is timed.
SleptPar(outcome) == IF timed /\ outcome = "exc" THEN RETRY_DELAY_PAR ELSE 0

AfterPost(f, outcome) ==
    LET last == f.attempt = RETRY_ATTEMPTS_PAR - 1
    IN  IF outcome = "200"
        THEN NextRecord([f EXCEPT !.success = f.success + 1])
        ELSE LET g == IF last THEN [f EXCEPT !.failed = f.failed + 1] ELSE f
             IN  IF last THEN NextRecord(g)
                 ELSE [g EXCEPT !.attempt = f.attempt + 1,
                                !.waited = SleptPar(outcome)]

Logged(outcome) == IF outcome = "200" THEN "ok" ELSE "fail"

StartBatch(b) ==
    /\ pool = "open"
    /\ CanStart(b)
    /\ futures' = [futures EXCEPT ![b].pc = "post"]
    /\ UNCHANGED <<decodervars, inputs, all_errors, pc, ti, scanvars, converted, batches, pool,
                   progress_lock, progress_stats, log, call, bi, total_success,
                   total_failed, results, scan_errors, exit_code>>

Post(b) ==
    /\ futures[b].pc = "post"
    /\ \E outcome \in Outcomes :
        LET f == futures[b]
            id == f.records[f.r].id
        IN  /\ futures' = [futures EXCEPT ![b] = AfterPost(f, outcome)]
            /\ log' = [log EXCEPT ![id] = Append(@, Logged(outcome))]
    /\ UNCHANGED <<decodervars, inputs, all_errors, pc, ti, scanvars, converted, batches, pool,
                   progress_lock, progress_stats, call, bi, total_success,
                   total_failed, results, scan_errors, exit_code>>

\* Mutant of LockFree: the update is made without waiting for the lock.
LockIgnored == TRUE

\* `with progress_lock:` - blocks until the lock is free.
LockFree == progress_lock = 0

Acquire(b) ==
    /\ futures[b].pc = "lock"
    /\ LockFree
    /\ progress_lock' = b
    /\ futures' = [futures EXCEPT ![b].pc = "entry"]
    /\ UNCHANGED <<decodervars, inputs, all_errors, pc, ti, scanvars, converted, batches, pool,
                   progress_stats, log, call, bi, total_success, total_failed,
                   results, scan_errors, exit_code>>

NewEntry(total) == [completed |-> 0, total |-> total, success |-> 0, failed |-> 0]

\* `if key not in progress_stats: progress_stats[key] = {...}`
EnsureEntry(b) ==
    /\ futures[b].pc = "entry"
    /\ LET key == futures[b].table_name
       IN  progress_stats' =
             IF key \in DOMAIN progress_stats THEN progress_stats
             ELSE [k \in DOMAIN progress_stats \cup {key} |->
                     IF k = key THEN NewEntry(futures[b].total_batches)
                     ELSE progress_stats[k]]
    /\ futures' = [futures EXCEPT ![b].pc = "load_completed"]
    /\ UNCHANGED <<decodervars, inputs, all_errors, pc, ti, scanvars, converted, batches, pool,
                   progress_lock, log, call, bi, total_success, total_failed,
                   results, scan_errors, exit_code>>

\* `progress_stats[key][field] += n` is a load followed by a store.
Field(step) ==
    CASE step \in {"load_completed", "store_completed"} -> "completed"
      [] step \in {"load_success", "store_success"} -> "success"
      [] step \in {"load_failed", "store_failed"} -> "failed"

\* Mutant of Addend: the progress report counts every record of the batch
\* as a success.
Addend_WholeBatch(f) ==
    CASE Field(f.pc) = "completed" -> 1
      [] Field(f.pc) = "success" -> Len(f.records)
      [] Field(f.pc) = "failed" -> f.failed

Addend(f) ==
    CASE Field(f.pc) = "completed" -> 1
      [] Field(f.pc) = "success" -> f.success
      [] Field(f.pc) = "failed" -> f.failed

AfterStep(step) ==
    CASE step = "load_completed" -> "store_completed"
      [] step = "store_completed" -> "load_success"
      [] step = "load_success" -> "store_success"
      [] step = "store_success" -> "load_failed"
      [] step = "load_failed" -> "store_failed"
      [] step = "store_failed" -> "print"

Load(b) ==
    /\ futures[b].pc \in {"load_completed", "load_success", "load_failed"}
    /\ LET f == futures[b]
       IN  futures' = [futures EXCEPT
                         ![b].tmp = progress_stats[f.table_name][Field(f.pc)],
                         ![b].pc = AfterStep(f.pc)]
    /\ UNCHANGED <<decodervars, inputs, all_errors, pc, ti, scanvars, converted, batches, pool,
                   progress_lock, progress_stats, log, call, bi, total_success,
                   total_failed, results, scan_errors, exit_code>>

Store(b) ==
    /\ futures[b].pc \in {"store_completed", "store_success", "store_failed"}
    /\ LET f == futures[b]
       IN  /\ progress_stats' =
                [progress_stats EXCEPT ![f.table_name][Field(f.pc)] = f.tmp + Addend(f)]
           /\ futures' = [futures EXCEPT ![b].tmp = 0, ![b].pc = AfterStep(f.pc)]
    /\ UNCHANGED <<decodervars, inputs, all_errors, pc, ti, scanvars, converted, batches, pool,
                   progress_lock, log, call, bi, total_success, total_failed,
                   results, scan_errors, exit_code>>

\* Mutant of Release: the worker returns without giving the lock back.
Release_KeepsLock(b) ==
    /\ futures[b].pc = "print"
    /\ futures' = [futures EXCEPT ![b].pc = "done"]
    /\ UNCHANGED <<decodervars, inputs, all_errors, pc, ti, scanvars, converted, batches, pool,
                   progress_lock, progress_stats, log, call, bi, total_success,
                   total_failed, results, scan_errors, exit_code>>

\* The progress print, the end of the `with` block (the lock is released)
\* and `return results`: the future is done.
Release(b) ==
    /\ futures[b].pc = "print"
    /\ progress_lock' = 0
    /\ futures' = [futures EXCEPT ![b].pc = "done"]
    /\ UNCHANGED <<decodervars, inputs, all_errors, pc, ti, scanvars, converted, batches, pool,
                   progress_stats, log, call, bi, total_success, total_failed,
                   results, scan_errors, exit_code>>

\* ------------------------------------------ parallel importer: main thread
\* `for future in as_completed(futures)`: one finished future per iteration.
Collect(b) ==
    /\ pc = "collect"
    /\ futures[b].pc = "done"
    /\ ~futures[b].yielded
    /\ total_success' = total_success + futures[b].success
    /\ total_failed' = total_failed + futures[b].failed
    /\ futures' = [futures EXCEPT ![b].yielded = TRUE]
    /\ UNCHANGED <<decodervars, inputs, all_errors, pc, ti, scanvars, converted, batches, pool,
                   progress_lock, progress_stats, log, call, bi, results, scan_errors, exit_code>>

\* as_completed is exhausted once every future was yielded; leaving the
\* `with` block is executor.shutdown(wait=True), which joins the threads.
Drained ==
    /\ \A b \in DOMAIN futures : futures[b].yielded
    /\ \A b \in DOMAIN futures : futures[b].pc \in {"done", "raised"}

\* Mutant of ExitPool: the result loop and the pool are left without waiting.
ExitPool_NoWait ==
    /\ pc = "collect"
    /\ pool' = "shutdown"
    /\ pc' = "finished"
    /\ UNCHANGED <<decodervars, inputs, all_errors, ti, scanvars, converted, batches, futures,
                   progress_lock, progress_stats, log, call, bi, total_success,
                   total_failed, results, scan_errors, exit_code>>

ExitPool ==
    /\ pc = "collect"
    /\ Drained
    /\ pool' = "shutdown"
    /\ pc' = "finished"
    /\ UNCHANGED <<decodervars, inputs, all_errors, ti, scanvars, converted, batches, futures,
                   progress_lock, progress_stats, log, call, bi, total_success,
                   total_failed, results, scan_errors, exit_code>>

TableEntry(table, total, success, failed) ==
    [table |-> table, error |-> FALSE, total |-> total, success |-> success,
     failed |-> failed]

\* `return {...}` of import_table_parallel and main's results.append(result).
ReturnPar ==
    /\ program = PAR
    /\ pc = "finished"
    /\ results' = Append(results,
                         TableEntry(tables_to_import[ti], Len(converted), total_success, total_failed))
    /\ NextTable
    /\ UNCHANGED <<decodervars, inputs, poolvars, scan_errors, exit_code>>

\* ---------------------------------------------------------------- summary
RECURSIVE SumField(_, _)
SumField(rs, field) ==
    IF rs = <<>> THEN 0 ELSE rs[1][field] + SumField(Tail(rs), field)

\* Mutant of Summary: the exit status looks at the last table only.
Summary_LastTableOnly ==
    /\ pc = "summary"
    /\ exit_code' = IF results[Len(results)].failed = 0 THEN 0 ELSE 1
    /\ pc' = "exit"
    /\ UNCHANGED <<decodervars, inputs, ti, scanvars, poolvars, tablevars, results, scan_errors>>

\* `return 0 if total_failed == 0 else 1`, handed to sys.exit.
Summary ==
    /\ pc = "summary"
    /\ exit_code' = IF SumField(results, "failed") = 0 THEN 0 ELSE 1
    /\ pc' = "exit"
    /\ UNCHANGED <<decodervars, inputs, ti, scanvars, poolvars, tablevars, results, scan_errors>>

\* ------------------------------------------------------ sequential importer
\* Convert items (adding the source metadata) and enter the batch loop.
PlanSeq ==
    /\ program = SEQ
    /\ pc = "scanned"
    /\ items # <<>>
    /\ ~ConversionRaises(items)
    /\ BATCH_SIZE # 0
    /\ converted' = ConvertAllSeq(items, tables_to_import[ti])
    /\ log' = NoLog(ConvertAllSeq(items, tables_to_import[ti]))
    /\ total_success' = 0
    /\ total_failed' = 0
    /\ all_errors' = <<>>
    /\ bi' = 1
    /\ pc' = "batches"
    /\ ScanForgotten
    /\ UNCHANGED <<decodervars, inputs, ti, items, batches, poolvars, call, results,
                   scan_errors, exit_code>>

\* The positions i of `for i in range(0, len(converted_items), BATCH_SIZE)`.
LoopPositions == RangeFrom(0, Len(converted), BATCH_SIZE)

CurrentBatch ==
    BatchAt(converted, LoopPositions[bi], BATCH_SIZE, tables_to_import[ti])

\* One loop iteration up to the call of send_to_supabase.  With dry_run the
\* call returns {'success': True, 'dry_run': True, 'count': n} at once and the
\* iteration adds result.get('success', 0) = True and result.get('failed', 0).
BeginBatch ==
    /\ pc = "batches"
    /\ call.pc = "idle"
    /\ bi <= Len(LoopPositions)
    /\ IF dry_run
       THEN /\ total_success' = total_success + 1
            /\ bi' = bi + 1
            /\ call' = call
       ELSE /\ call' = [pc |-> "post", records |-> CurrentBatch.records, r |-> 1,
                        attempt |-> 0, success |-> 0, failed |-> 0, errors |-> <<>>,
                        waited |-> 0]
            /\ UNCHANGED <<total_success, bi>>
    /\ UNCHANGED <<decodervars, inputs, all_errors, pc, ti, scanvars, converted, batches, poolvars, log,
                   total_failed, results, scan_errors, exit_code>>

NextRecordSeq(f) ==
    IF f.r + 1 > Len(f.records)
    THEN [f EXCEPT !.r = f.r + 1, !.attempt = 0, !.waited = 0, !.pc = "return"]
    ELSE [f EXCEPT !.r = f.r + 1, !.attempt = 0, !.waited = 0]

\* The entry appended to results['errors'] for a record that failed for good,
\* after a status other than 200 or after an exception: its 'record_id'; the
\* status and the message text it also carries are left out.
ErrorDetail(record, outcome) == [record_id |-> record.id]

\* Mutant of AfterPostSeq: every failed attempt leaves an entry in the errors.
AfterPostSeq_ErrorPerAttempt(f, outcome) ==
    LET last == f.attempt = RETRY_ATTEMPTS_SEQ - 1
        g == [f EXCEPT !.errors = Append(f.errors, ErrorDetail(f.records[f.r], outcome))]
    IN  IF outcome = "200"
        THEN NextRecordSeq([f EXCEPT !.success = f.success + 1])
        ELSE IF last THEN NextRecordSeq([g EXCEPT !.failed = f.failed + 1])
             ELSE [g EXCEPT !.attempt = f.attempt + 1]

\* Mutant of AfterPostSeq: a record that exhausts its attempts ends the batch.
AfterPostSeq_AbortOnFail(f, outcome) ==
    LET last == f.attempt = RETRY_ATTEMPTS_SEQ - 1
    IN  IF outcome = "200"
        THEN NextRecordSeq([f EXCEPT !.success = f.success + 1])
        ELSE IF last
             THEN [f EXCEPT !.failed = f.failed + 1,
                            !.errors = Append(f.errors, ErrorDetail(f.records[f.r], outcome)),
                            !.attempt = 0,
                            !.r = Len(f.records) + 1, !.pc = "return"]
             ELSE [f EXCEPT !.attempt = f.attempt + 1]

\* One iteration of the retry loop of send_to_supabase (as AfterPost, with the
\* sequential importer's RETRY_ATTEMPTS).
\* time.sleep(RETRY_DELAY) stands in the `else` branch and in the `except`
\* branch: the time slept after a POST that did not return 200.
SleptSeq(outcome) == IF timed /\ outcome # "200" THEN RETRY_DELAY_SEQ ELSE 0

AfterPostSeq(f, outcome) ==
    LET last == f.attempt = RETRY_ATTEMPTS_SEQ - 1
    IN  IF outcome = "200"
        THEN NextRecordSeq([f EXCEPT !.success = f.success + 1])
        ELSE LET g == IF last
                      THEN [f EXCEPT !.failed = f.failed + 1,
                                     !.errors = Append(f.errors,
                                                       ErrorDetail(f.records[f.r], outcome))]
                      ELSE f
             IN  IF last THEN NextRecordSeq(g)
                 ELSE [g EXCEPT !.attempt = f.attempt + 1,
                                !.waited = SleptSeq(outcome)]

PostSeq ==
    /\ program = SEQ
    /\ call.pc = "post"
    /\ \E outcome \in Outcomes :
        /\ call' = AfterPostSeq(call, outcome)
        /\ log' = [log EXCEPT ![call.records[call.r].id] = Append(@, Logged(outcome))]
    /\ UNCHANGED <<decodervars, inputs, all_errors, pc, ti, scanvars, converted, batches, poolvars, bi,
                   total_success, total_failed, results, scan_errors, exit_code>>

\* `return results` and the rest of the loop iteration.
EndBatch ==
    /\ call.pc = "return"
    /\ total_success' = total_success + call.success
    /\ total_failed' = total_failed + call.failed
    /\ all_errors' = all_errors \o call.errors
    /\ bi' = bi + 1
    /\ call' = NoCall
    /\ UNCHANGED <<decodervars, inputs, pc, ti, scanvars, converted, batches, poolvars, log,
                   results, scan_errors, exit_code>>

\* The summary of import_table: the counts and `all_errors[:10]`.
SummaryEntry(table, total, success, failed, errors) ==
    [table |-> table, error |-> FALSE, total |-> total, success |-> success,
     failed |-> failed, errors |-> Slice(errors, 0, MaxErrorDetails)]

\* The loop is exhausted: `return summary` and main's results.append(result).
ReturnSeq ==
    /\ program = SEQ
    /\ pc = "batches"
    /\ call.pc = "idle"
    /\ bi > Len(LoopPositions)
    /\ results' = Append(results,
                         SummaryEntry(tables_to_import[ti], Len(converted), total_success, total_failed,
                                      all_errors))
    /\ NextTable
    /\ UNCHANGED <<decodervars, inputs, poolvars, scan_errors, exit_code>>

NextPar ==
    \/ ScanPar
    \/ ScanFailsPar
    \/ NoItemsPar
    \/ PlanPar
    \/ \E b \in DOMAIN futures :
         StartBatch(b) \/ Post(b) \/ Acquire(b) \/ EnsureEntry(b) \/ Load(b)
           \/ Store(b) \/ Release(b) \/ Collect(b)
    \/ ExitPool
    \/ ReturnPar

NextSeq ==
    \/ ScanSeq
    \/ ScanFailsSeq
    \/ NoItemsSeq
    \/ PlanSeq
    \/ BeginBatch
    \/ PostSeq
    \/ EndBatch
    \/ ReturnSeq

Next ==
    \/ NextPar
    \/ NextSeq
    \/ Summary

Spec == Init /\ [][Next]_vars

\* ------------------------------------------------- runs under a scheduler
\* The parallel importer on one table (--table), with threads that are run: a
\* step that stays possible is taken.  A POST returns or raises by its
\* timeout, a scan request returns, a thread that can run is scheduled, and
\* a thread waiting for progress_lock gets it once it is free, there being
\* no more than num_workers threads to wait for.
LiveInit ==
    /\ program = PAR
    /\ tables_to_import = <<1>>
    /\ max_items = RunMaxItems
    /\ BATCH_SIZE = RunBatchSize
    /\ num_workers \in 1..MaxWorkers
    /\ dry_run = FALSE
    /\ corrupt = <<>>
    /\ timed = FALSE
    /\ EngineStart
    /\ NoDecoderCall

LiveNext == NextPar \/ Summary

LiveSpec == LiveInit /\ [][LiveNext]_vars /\ WF_vars(LiveNext)

\* ------------------------------------------------------- runs with faults
\* Runs with what a valid run leaves out: a worker count of 0, a batch size of
\* 0 or below, items the decoders stumble over, and the waits of the retry
\* loops followed.
MaxFaultWorkers == 1   \* largest --workers value tried, 0 being the least
MaxNegBatch == 1       \* the least --batch-size value tried is -MaxNegBatch
MaxFaultItems == 1     \* items of each table of a run with faults

\* An exception leaves the conversion loop and the per-table import; main's
\* `except Exception` appends the error entry and the table loop goes on.
ConvertRaises ==
    /\ pc = "scanned"
    /\ items # <<>>
    /\ ConversionRaises(items)
    /\ results' = Append(results, ErrorEntry(tables_to_import[ti]))
    /\ NextTable
    /\ UNCHANGED <<decodervars, inputs, poolvars, scan_errors, exit_code>>

ConvertFailsPar == program = PAR /\ ConvertRaises

ConvertFailsSeq == program = SEQ /\ ConvertRaises

\* fast-parallel-import.py: ThreadPoolExecutor(max_workers=num_workers) raises
\* ValueError for num_workers <= 0, after the scan, the conversion and the
\* batching; main's `except Exception` appends the error entry.
PoolRejected ==
    /\ program = PAR
    /\ pc = "scanned"
    /\ items # <<>>
    /\ ~ConversionRaises(items)
    /\ num_workers <= 0
    /\ results' = Append(results, ErrorEntry(tables_to_import[ti]))
    /\ NextTable
    /\ UNCHANGED <<decodervars, inputs, poolvars, scan_errors, exit_code>>

\* Mutant of RangeRaises: a batch size of 0 plans no batch and raises nothing.
RangeRaises_NoBatch ==
    /\ program = SEQ
    /\ pc = "scanned"
    /\ items # <<>>
    /\ ~ConversionRaises(items)
    /\ BATCH_SIZE = 0
    /\ results' = Append(results, SummaryEntry(tables_to_import[ti], Len(items), 0, 0, <<>>))
    /\ NextTable
    /\ UNCHANGED <<decodervars, inputs, poolvars, scan_errors, exit_code>>

\* import-dynamodb-to-supabase.py: range(0, len(converted_items), 0) raises
\* ValueError, after the scan and the conversion; main's `except Exception`
\* appends the error entry.
RangeRaises ==
    /\ program = SEQ
    /\ pc = "scanned"
    /\ items # <<>>
    /\ ~ConversionRaises(items)
    /\ BATCH_SIZE = 0
    /\ results' = Append(results, ErrorEntry(tables_to_import[ti]))
    /\ NextTable
    /\ UNCHANGED <<decodervars, inputs, poolvars, scan_errors, exit_code>>

\* `if completed % 10 == 0 or completed == total_batches`: the worker prints
\* the progress of its table.
PrintsProgress(b) ==
    LET st == progress_stats[futures[b].table_name]
    IN  st.completed % 10 = 0 \/ st.completed = futures[b].total_batches

\* The progress print raises (OSError of the output stream, an encoding
\* error): it is the one I/O statement of the worker outside the `try` of the
\* retry loop.  The `with` block releases the lock on the way out and the
\* exception is stored in the future.
WorkerRaises(b) ==
    /\ futures[b].pc = "print"
    /\ PrintsProgress(b)
    /\ progress_lock' = 0
    /\ futures' = [futures EXCEPT ![b].pc = "raised"]
    /\ UNCHANGED <<decodervars, inputs, all_errors, pc, ti, scanvars, converted, batches, pool,
                   progress_stats, log, call, bi, total_success, total_failed,
                   results, scan_errors, exit_code>>

\* Mutant of CollectRaised: the exception of future.result() is not caught in
\* the result loop and reaches main's `except Exception`.
CollectRaised_AbortsTable(b) ==
    /\ pc = "collect"
    /\ futures[b].pc = "raised"
    /\ ~futures[b].yielded
    /\ results' = Append(results, ErrorEntry(tables_to_import[ti]))
    /\ NextTable
    /\ UNCHANGED <<decodervars, inputs, poolvars, scan_errors, exit_code>>

\* Mutant of CollectRaised: the records of the batch are counted as failed.
CollectRaised_BatchLength(b) ==
    /\ pc = "collect"
    /\ futures[b].pc = "raised"
    /\ ~futures[b].yielded
    /\ total_failed' = total_failed + Len(futures[b].records)
    /\ futures' = [futures EXCEPT ![b].yielded = TRUE]
    /\ UNCHANGED <<decodervars, inputs, all_errors, pc, ti, scanvars, converted, batches, pool,
                   progress_lock, progress_stats, log, call, bi, total_success,
                   results, scan_errors, exit_code>>

\* The result loop meets a future whose call raised: future.result() raises,
\* `except Exception` prints and adds BATCH_SIZE to total_failed.
CollectRaised(b) ==
    /\ pc = "collect"
    /\ futures[b].pc = "raised"
    /\ ~futures[b].yielded
    /\ total_failed' = total_failed + BATCH_SIZE
    /\ futures' = [futures EXCEPT ![b].yielded = TRUE]
    /\ UNCHANGED <<decodervars, inputs, all_errors, pc, ti, scanvars, converted, batches, pool,
                   progress_lock, progress_stats, log, call, bi, total_success,
                   results, scan_errors, exit_code>>

\* Ctrl-C: KeyboardInterrupt is raised in the main thread while it waits in
\* as_completed.  It is no Exception, so the `except` of the result loop lets
\* it pass; it leaves the `with` block through executor.shutdown(wait=True),
\* which cancels nothing: the worker threads go on with the queue.
Interrupt ==
    /\ program = PAR
    /\ pc = "collect"
    /\ pc' = "interrupted"
    /\ UNCHANGED <<decodervars, inputs, ti, scanvars, poolvars, tablevars, results,
                   scan_errors, exit_code>>

\* Every batch has run: shutdown returns and KeyboardInterrupt goes up through
\* import_table_parallel and main, whose `except Exception` does not catch
\* it.  The process ends with a traceback; the summary is never printed and
\* main returns no status.
Unwind ==
    /\ pc = "interrupted"
    /\ \A b \in DOMAIN futures : futures[b].pc \in {"done", "raised"}
    /\ pool' = "shutdown"
    /\ pc' = "killed"
    /\ UNCHANGED <<decodervars, inputs, ti, scanvars, futures, progress_lock,
                   progress_stats, tablevars, results, scan_errors, exit_code>>

FaultInit ==
    /\ program \in {PAR, SEQ}
    /\ tables_to_import = [k \in 1..NumTables |-> k]
    /\ max_items = MaxFaultItems
    /\ BATCH_SIZE \in (IF program = PAR THEN {RunBatchSize}
                       ELSE (0 - MaxNegBatch)..RunBatchSize)
    /\ num_workers \in (IF program = PAR THEN 0..MaxFaultWorkers ELSE {1})
    /\ dry_run = FALSE
    /\ corrupt \in UNION {[S -> FaultKinds] : S \in SUBSET (1..MaxFaultItems)}
    /\ timed = TRUE
    /\ EngineStart
    /\ NoDecoderCall

FaultNext ==
    \/ Next
    \/ ConvertFailsPar
    \/ ConvertFailsSeq
    \/ PoolRejected
    \/ RangeRaises

FaultSpec == FaultInit /\ [][FaultNext]_vars

\* Runs of the parallel importer on one table (--table) in which a worker's
\* call may raise and the main thread may be interrupted, with full and with
\* short batches.
RaiseInit ==
    /\ program = PAR
    /\ tables_to_import = <<1>>
    /\ max_items = RunMaxItems
    /\ BATCH_SIZE \in {RunBatchSize, ParBatchSize}
    /\ num_workers \in 1..MaxFaultWorkers
    /\ dry_run = FALSE
    /\ corrupt = <<>>
    /\ timed = FALSE
    /\ EngineStart
    /\ NoDecoderCall

RaiseNext ==
    \/ NextPar
    \/ Summary
    \/ \E b \in DOMAIN futures : WorkerRaises(b) \/ CollectRaised(b)
    \/ Interrupt
    \/ Unwind

RaiseSpec == RaiseInit /\ [][RaiseNext]_vars

\* ------------------------------------------------- a decoder taken alone
\* The decoders are pure functions; here one call of one of them is followed:
\* a value is drawn, stored as the only attribute of an item, the item is
\* handed to convert_dynamodb_item of the script named by `program`, and what
\* the call returned for the attribute (or raised) is kept in `decoded`.
MaxNumLen == 4      \* characters of a number text
MaxLen == 2         \* members of a map, list or set

NumChars == {"-", ".", "e", "0", "3", "5"}
\* The number texts of up to len characters.
Texts(len) == UNION {[1..n -> NumChars] : n \in 1..len}

Seqs(S) == UNION {[1..n -> S] : n \in 0..MaxLen}

KeyNames == <<"x", "y", "z", "w">>
Dicts(S) ==
    UNION {[K -> S] : K \in SUBSET {KeyNames[i] : i \in 1..Min(MaxLen, Len(KeyNames))}}

\* Number-tagged values over every text, alone and nested in a map or a list.
NumberValues(len) == {Tagged("N", PyStr(t)) : t \in Texts(len)}
NestedNumbers(len) ==
    {Tagged("M", PyDict("x" :> n)) : n \in NumberValues(len)}
      \cup {Tagged("L", PyList(<<n>>)) : n \in NumberValues(len)}

SetTexts == {<<"5">>, <<"-", "3">>, <<"5", ".", "5", "0">>, <<"5", "e", "3", "0">>, <<"e">>}
NumberSets == {Tagged("NS", PyList(q)) : q \in Seqs({PyStr(t) : t \in SetTexts})}
StringSets == {Tagged("SS", PyList(q)) : q \in Seqs({PyStr(<<"a">>), PyStr(<<"b">>)})}

\* One value of every tag of the wire format.
TaggedLeaves ==
    {Tagged("S", PyStr(<<"a">>)),
     Tagged("N", PyStr(<<"5">>)),
     Tagged("N", PyStr(<<"5", ".", "5", "0">>)),
     Tagged("N", PyStr(<<"5", "e", "3", "0">>)),
     Tagged("BOOL", PyBool(TRUE)),
     Tagged("NULL", PyBool(TRUE)),
     Tagged("SS", PyList(<<PyStr(<<"b">>), PyStr(<<"a">>)>>)),
     Tagged("NS", PyList(<<PyStr(<<"5">>), PyStr(<<"5", ".", "5", "0">>)>>)),
     Tagged("B", PyBytes(<<"a">>)),
     Tagged("BS", PyList(<<PyBytes(<<"a">>)>>))}

\* Values as a client layer that already decoded them hands them over.
PlainLeaves == {PyDecimal(0, 5, 0), PyDecimal(0, 55, -1), PyStr(<<"a">>)}

Children == TaggedLeaves \cup PlainLeaves

\* The maps and lists, tagged and plain, of up to MaxLen members from S.
Structures(S) ==
    {Tagged("M", PyDict(f)) : f \in Dicts(S)}
      \cup {Tagged("L", PyList(q)) : q \in Seqs(S)}
      \cup {PyDict(f) : f \in Dicts(S)}
      \cup {PyList(q) : q \in Seqs(S)}

\* The maps and lists, tagged and plain, whose only member is one of S.
Wrappers(S) ==
    {Tagged("M", PyDict("x" :> c)) : c \in S}
      \cup {Tagged("L", PyList(<<c>>)) : c \in S}
      \cup {PyDict("x" :> c) : c \in S}
      \cup {PyList(<<c>>) : c \in S}

Nested == Wrappers(Wrappers(Children))

Universe(len) ==
    NumberValues(len) \cup NestedNumbers(len) \cup NumberSets \cup StringSets
      \cup Children \cup Structures(Children) \cup Nested

DecoderInit ==
    /\ program \in {PAR, SEQ}
    /\ tables_to_import = <<>>
    /\ max_items = 0
    /\ num_workers = 1
    /\ BATCH_SIZE = 1
    /\ dry_run = FALSE
    /\ corrupt = <<>>
    /\ timed = FALSE
    /\ EngineStart
    /\ raw_value \in Universe(MaxNumLen)
    /\ decoded = Pending

\* result['a'] of the converted item, or the exception that left the call.
Attribute(conv) == IF Raised(conv) THEN conv ELSE Val(conv)["a"]

\* fast-parallel-import.py: convert_dynamodb_item({'a': raw_value})
DecodePar ==
    /\ program = PAR
    /\ decoded = Pending
    /\ decoded' = Attribute(par_convert_dynamodb_item(PyDict("a" :> raw_value)))
    /\ UNCHANGED <<raw_value, inputs, pc, ti, scanvars, poolvars, tablevars,
                   results, scan_errors, exit_code>>

\* import-dynamodb-to-supabase.py: convert_dynamodb_item({'a': raw_value})
DecodeSeq ==
    /\ program = SEQ
    /\ decoded = Pending
    /\ decoded' = Attribute(seq_convert_dynamodb_item(PyDict("a" :> raw_value)))
    /\ UNCHANGED <<raw_value, inputs, pc, ti, scanvars, poolvars, tablevars,
                   results, scan_errors, exit_code>>

DecoderNext ==
    \/ DecodePar
    \/ DecodeSeq

DecoderSpec == DecoderInit /\ [][DecoderNext]_vars


\* =================================================================== claims
Range(seq) == {seq[k] : k \in 1..Len(seq)}

\* ceil(n / d) for d > 0, by its defining property.
CeilDiv(n, d) == CHOOSE q \in 0..n : q * d >= n /\ (q = 0 \/ (q - 1) * d < n)

\* The frames whose records belong to the table being transferred.
Frames ==
    IF program = PAR
    THEN (IF pc \in {"collect", "finished"}
          THEN {futures[b] : b \in DOMAIN futures} ELSE {})
    ELSE (IF call.pc = "idle" THEN {} ELSE {call})

Ids(f) == {f.records[j].id : j \in 1..Len(f.records)}

Succeeded == {id \in DOMAIN log : "ok" \in Range(log[id])}

Exhausted == {id \in DOMAIN log : log[id] = [k \in 1..RETRY_ATTEMPTS |-> "fail"]}

FaultFree == \A id \in DOMAIN log : "fail" \notin Range(log[id])

\* The progress entry of table t is final for R records.
FinalEntry(t, R) ==
    /\ t \in DOMAIN progress_stats
    /\ progress_stats[t].success + progress_stats[t].failed = R
    /\ progress_stats[t].completed = progress_stats[t].total
    /\ progress_stats[t].total = CeilDiv(R, BATCH_SIZE)

\* C1: progress conservation in the parallel importer.  When the pool of a
\* table with R scanned records has delivered every batch, the table's progress
\* entry and the per-table result both have success + failed = R and the entry
\* has completed = total = ceil(R / BATCH_SIZE); with a fault-free endpoint the
\* result is success = R, failed = 0.
C1_ProgressConservation ==
    program = PAR =>
      /\ pc = "finished" =>
           /\ Len(converted) = Len(items)
           /\ FinalEntry(tables_to_import[ti], Len(items))
           /\ total_success + total_failed = Len(items)
           /\ FaultFree =>
                /\ total_success = Len(items) /\ total_failed = 0
                /\ progress_stats[tables_to_import[ti]].success = Len(items)
                /\ progress_stats[tables_to_import[ti]].failed = 0
      /\ \A k \in 1..Len(results) :
           (~results[k].error /\ results[k].total > 0) =>
             /\ results[k].success + results[k].failed = results[k].total
             /\ FinalEntry(results[k].table, results[k].total)

C1_Witness ==
    /\ program = PAR /\ pc = "finished"
    /\ Len(items) = 5 /\ Len(futures) = 3
    /\ FaultFree /\ total_success = 5

\* C2: for every table present in progress_stats the completed-batch count
\* never exceeds the entry's total-batch count, in every reachable state.
C2_CompletedWithinTotal ==
    \A t \in DOMAIN progress_stats :
        /\ 0 <= progress_stats[t].completed
        /\ progress_stats[t].completed <= progress_stats[t].total

C2_Witness ==
    /\ program = PAR /\ num_workers = 2
    /\ \E t \in DOMAIN progress_stats :
         progress_stats[t].completed = 3 /\ progress_stats[t].total = 3

\* C3: idempotent retry accounting.  A record whose upsert failed K times
\* (K < RETRY_ATTEMPTS) and then succeeded was attempted exactly K + 1 times,
\* the success being the last attempt; it counts 1 in the batch's success
\* counter and 0 in its failure counter: the success counter is the number of
\* the batch's records that succeeded, whatever their K.
C3_IdempotentRetry ==
    \A f \in Frames :
      /\ \A id \in Ids(f) \cap Succeeded :
           LET K == Len(log[id]) - 1
           IN  /\ K < RETRY_ATTEMPTS
               /\ \A k \in 1..K : log[id][k] = "fail"
               /\ log[id][K + 1] = "ok"
      /\ f.success = Cardinality(Ids(f) \cap Succeeded)
      /\ f.failed = Cardinality((Ids(f) \ Succeeded) \cap Exhausted)

C3_Witness ==
    /\ program = PAR
    /\ \E f \in Frames : \E id \in Ids(f) :
         /\ log[id] = <<"fail", "ok">>
         /\ f.success = 1 /\ f.failed = 0 /\ f.pc = "done"

\* C4: per-record bounded retry.  Every record of a batch gets between 1 and
\* RETRY_ATTEMPTS attempts and none after its first success; each finished
\* record has incremented exactly one of the two counters, once; a record that
\* failed all its attempts counts as one failure and the records after it are
\* still attempted, so a finished batch has attempted every record and a
\* finished table has failed = number of always-failing records and
\* success = the rest.
C4_BoundedRetry ==
    /\ \A f \in Frames :
         /\ \A j \in 1..Len(f.records) :
              LET l == log[f.records[j].id]
              IN  /\ Len(l) <= RETRY_ATTEMPTS
                  /\ \A k \in 1..(Len(l) - 1) : l[k] = "fail"
                  /\ j < f.r => /\ Len(l) >= 1
                                /\ l[Len(l)] = "ok" \/ Len(l) = RETRY_ATTEMPTS
                  /\ j > f.r => l = <<>>
                  /\ j = f.r => Len(l) = f.attempt /\ "ok" \notin Range(l)
         /\ f.success + f.failed = f.r - 1
         /\ f.failed = Cardinality(Ids(f) \cap Exhausted)
         /\ f.pc \notin {"queued", "post"} => f.r = Len(f.records) + 1
    /\ (\/ program = PAR /\ pc = "finished"
        \/ program = SEQ /\ ~dry_run /\ pc = "batches" /\ call.pc = "idle"
             /\ bi > Len(LoopPositions)) =>
         /\ total_failed = Cardinality(DOMAIN log \ Succeeded)
         /\ total_success = Len(converted) - Cardinality(DOMAIN log \ Succeeded)

C4_Witness ==
    /\ program = PAR /\ pc = "finished"
    /\ Len(converted) = 5
    /\ log[1] = <<"fail", "fail">>
    /\ total_success = 4 /\ total_failed = 1

\* C5: finalization ordering.  A step that produces a table's result is taken
\* only when no batch is pending or running; when the result is that of a
\* transfer, every batch dispatched for the table is done and has reported to
\* progress_stats.
C5_FinalizeAfterAllBatches ==
    [][ (program = PAR /\ Len(results') > Len(results)) =>
          /\ \A b \in DOMAIN futures : futures[b].pc = "done"
          /\ LET r == results'[Len(results')]
             IN  (~r.error /\ r.total > 0) =>
                   /\ Len(futures) = Len(batches) /\ futures # <<>>
                   /\ \A b \in DOMAIN futures : futures[b].table_name = r.table
                   /\ r.table \in DOMAIN progress_stats
                   /\ progress_stats[r.table].completed = Len(futures) ]_vars

C5_Witness ==
    /\ program = PAR
    /\ Len(results) = 2
    /\ results[1].total = 2 /\ results[2].total = 2


InCriticalSection(f) ==
    f.pc \in {"entry", "load_completed", "store_completed", "load_success",
              "store_success", "load_failed", "store_failed", "print"}

\* C6: bounded, per-table concurrency.  At most num_workers batches are being
\* transferred at any instant; every batch that is not finished belongs to the
\* table being imported and lives in that table's open pool; while a table is
\* scanned (in particular table j+1 after table j) no batch is pending or
\* running and no pool is open.
C6_BoundedPerTableConcurrency ==
    /\ Cardinality(Running) <= num_workers
    /\ \A b \in DOMAIN futures :
         futures[b].pc # "done" =>
           /\ pc = "collect"
           /\ pool = "open"
           /\ futures[b].table_name = tables_to_import[ti]
    /\ pc \in {"scan", "scanned"} => pool \in {"none", "shutdown"}
    /\ pool = "open" => pc = "collect"

C6_Witness ==
    /\ program = PAR /\ ti = 2
    /\ results[1].total = 2
    /\ num_workers = 1
    /\ Cardinality(Running) = 1
    /\ \E b \in DOMAIN futures : futures[b].pc = "queued"

\* Sum of g(f) over the frames b in S.
RECURSIVE SumFrames(_, _)
SumFrames(S, field) ==
    IF S = {} THEN 0
    ELSE LET b == CHOOSE c \in S : TRUE
         IN  (IF field = "records" THEN Len(futures[b].records)
              ELSE futures[b][field]) + SumFrames(S \ {b}, field)

\* C7: progress updates are mutually exclusive and never lost.  A frame is
\* inside the progress update only while it holds progress_lock; whenever the
\* lock is free, the entry of the table being transferred has completed = the
\* number of batches that have reported, success and failed = the sums of the
\* reported batches' counters, and success + failed = the number of records in
\* those batches (no entry exists before the first report).
C7_ProgressUnderLock ==
    /\ \A b \in DOMAIN futures :
         InCriticalSection(futures[b]) => progress_lock = b
    /\ (progress_lock = 0 /\ futures # <<>>) =>
         LET t == futures[1].table_name
             reported == {b \in DOMAIN futures : futures[b].pc = "done"}
         IN  IF reported = {}
             THEN t \notin DOMAIN progress_stats
             ELSE /\ t \in DOMAIN progress_stats
                  /\ progress_stats[t].completed = Cardinality(reported)
                  /\ progress_stats[t].success = SumFrames(reported, "success")
                  /\ progress_stats[t].failed = SumFrames(reported, "failed")
                  /\ progress_stats[t].success + progress_stats[t].failed
                       = SumFrames(reported, "records")

C7_Witness ==
    /\ progress_lock = 0
    /\ Len(futures) = 3
    /\ futures[2].pc = "done" /\ futures[1].pc = "lock" /\ futures[3].pc = "post"
    /\ progress_stats[1].completed = 1
    /\ progress_stats[1].success = 1 /\ progress_stats[1].failed = 1

RECURSIVE Concat(_)
Concat(bs) == IF bs = <<>> THEN <<>> ELSE bs[1].records \o Concat(Tail(bs))

\* bs is the partition of conv into batches of size B.
IsPartition(conv, bs, B) ==
    LET N == Len(conv)
    IN  /\ Len(bs) = CeilDiv(N, B)
        /\ \A i \in 1..Len(bs) :
             /\ bs[i].batch_num = i
             /\ bs[i].total_batches = CeilDiv(N, B)
             /\ Len(bs[i].records) = (IF i * B <= N THEN B ELSE N - (i - 1) * B)
             /\ \A j \in 1..Len(bs[i].records) :
                  bs[i].records[j] = conv[(i - 1) * B + j]
        /\ Concat(bs) = conv

\* The batches the sequential importer's loop goes through.
SeqBatches ==
    [k \in 1..Len(LoopPositions) |->
        BatchAt(converted, LoopPositions[k], BATCH_SIZE, tables_to_import[ti])]

Example237 ==
    LET conv == [j \in 1..237 |-> [id |-> j]]
        bs == CreateBatches(conv, 100, 1)
    IN  /\ <<Len(bs[1].records), Len(bs[2].records), Len(bs[3].records)>>
             = <<100, 100, 37>>
        /\ IsPartition(conv, bs, 100)

\* C8: batch partition completeness, in both importers.  Batch i holds the
\* elements [(i-1)*B, i*B) of the converted sequence (the last one possibly
\* fewer), batch numbers are 1..ceil(N/B), every batch carries the total
\* ceil(N/B), and the batches concatenated in order are the input; the batch a
\* send_to_supabase call works on is the one of its loop position; 237 records
\* with B = 100 give batches of 100, 100 and 37.
C8_BatchPartition ==
    /\ (program = PAR /\ pc \in {"collect", "finished"}) =>
         IsPartition(converted, batches, BATCH_SIZE)
    /\ (program = SEQ /\ pc = "batches") =>
         /\ IsPartition(converted, SeqBatches, BATCH_SIZE)
         /\ call.pc # "idle" => call.records = SeqBatches[bi].records
    /\ (pc = "scan" /\ ti = 1 /\ scans = <<>>) => Example237

C8_Witness ==
    /\ program = PAR /\ pc = "collect"
    /\ Len(converted) = 5 /\ Len(batches) = 3
    /\ Len(batches[3].records) = 1

\* C9: scan completeness, in both importers.  The first request carries no
\* cursor and every later one the cursor of the page before it; a request is
\* made only after a page that returned a cursor, and the scan ends exactly at
\* a page without one; the items collected are the items of the pages returned,
\* each once, in page order and in within-page order.
C9_ScanCompleteness ==
    pc \in {"scan", "scanned"} =>
      /\ items = Flatten(dynamo)
      /\ \A i, j \in 1..Len(items) : i # j => items[i] # items[j]
      /\ Len(scans) = Len(dynamo)
      /\ scans # <<>> => scans[1] = NoKey
      /\ \A k \in 2..Len(scans) :
           scans[k] # NoKey /\ scans[k] = dynamo[k - 1].LastEvaluatedKey
      /\ pc = "scanned" =>
           dynamo # <<>> /\ dynamo[Len(dynamo)].LastEvaluatedKey = NoKey
      /\ (pc = "scan" /\ dynamo # <<>>) =>
           last_key # NoKey /\ last_key = dynamo[Len(dynamo)].LastEvaluatedKey

C9_Witness ==
    /\ pc = "scanned"
    /\ Len(dynamo) = 2 /\ Len(dynamo[1].Items) = 3 /\ Len(items) = 5

\* C10: scan-error isolation, in both importers.  Every table of the list gets
\* exactly one entry in results, in list order; the entry is marked as errored
\* (with zero counts) exactly when a page read of that table failed; a failed
\* scan does not end the run: the summary is reached only with an entry for
\* every table.
C10_ScanErrorIsolation ==
    /\ Len(results) = ti - 1
    /\ \A k \in 1..Len(results) :
         /\ results[k].table = tables_to_import[k]
         /\ results[k].error <=> results[k].table \in scan_errors
         /\ results[k].error =>
              results[k].total = 0 /\ results[k].success = 0 /\ results[k].failed = 0
    /\ scan_errors \subseteq {tables_to_import[k] : k \in 1..Len(results)}
    /\ pc \in {"summary", "exit"} => Len(results) = Len(tables_to_import)

C10_Witness ==
    /\ pc = "exit"
    /\ Len(results) = 2
    /\ results[1].error /\ ~results[2].error /\ results[2].success = 2

TableFinished ==
    \/ program = PAR /\ pc = "finished"
    \/ program = SEQ /\ pc = "batches" /\ call.pc = "idle" /\ bi > Len(LoopPositions)

\* C12: exit status, in both importers.  No status is returned before the
\* summary; the status returned is 0 when every table result has failed = 0 and
\* 1 otherwise; and the failed count a table result carries is the number of
\* the table's records that failed all RETRY_ATTEMPTS attempts, so the status
\* is non-zero exactly when some record of some table permanently failed.
C12_ExitStatus ==
    /\ [](pc # "exit" => exit_code = -1)
    /\ [](pc = "exit" =>
            /\ exit_code \in {0, 1}
            /\ exit_code = 0 <=> \A k \in 1..Len(results) : results[k].failed = 0)
    /\ [][ Len(results') > Len(results) =>
             LET r == results'[Len(results')]
             IN  /\ TableFinished => r.failed = Cardinality(Exhausted)
                 /\ ~TableFinished => r.failed = 0 /\ Exhausted = {} ]_vars

C12_Witness ==
    /\ pc = "exit" /\ exit_code = 1
    /\ Len(results) = 2
    /\ results[1].failed = 1 /\ results[2].failed = 0 /\ results[2].success = 2

\* C20: dry run.  With --dry-run every table is still scanned, decoded and
\* batched, no POST is made for any record, and every table result reports
\* the hypothetical counts: success equal to the number of records scanned,
\* failed equal to 0.
C20_DryRun ==
    dry_run =>
        /\ \A id \in DOMAIN log : log[id] = <<>>
        /\ call = NoCall
        /\ \A k \in 1..Len(results) :
             ~results[k].error =>
                /\ results[k].failed = 0
                /\ results[k].success = results[k].total

\* ------------------------------------------------------- decoder claims
IsTagged(v, tag) == TypeOf(v) = "dict" /\ DOMAIN Val(v) = {tag}

\* The number a number text stands for, as <<m, e>>.
ValueOf(t) == Normal(Val(Decimal(t))[1], Val(Decimal(t))[2], Val(Decimal(t))[3])

IsNumberText(t) == ~Raised(Decimal(t))

\* A number text that is an integer literal: a sign and digits.
PlainInteger(t) == IsNumberText(t) /\ \A i \in 1..Len(t) : t[i] \notin {".", "e", "E"}

HasFractionOrExponent(t) ==
    IsNumberText(t) /\ \E i \in 1..Len(t) : t[i] \in {".", "e", "E"}

\* A map, a list, whose only member is a number-tagged value.
NumberInMap(v) ==
    /\ IsTagged(v, "M")
    /\ DOMAIN Val(Val(v)["M"]) = {"x"}
    /\ IsTagged(Val(Val(v)["M"])["x"], "N")

NumberInList(v) ==
    /\ IsTagged(v, "L")
    /\ Len(Val(Val(v)["L"])) = 1
    /\ IsTagged(Val(Val(v)["L"])[1], "N")

\* The rule of C16 for the number text t decoded to `out`.
IntFloatRule(t, out) ==
    /\ PlainInteger(t) => out = PyInt(ValueOf(t))
    /\ HasFractionOrExponent(t) => out = PyFloat(ValueOf(t))

\* C16: integer/float discrimination.  A number-tagged value decodes to an
\* integer when its text is an exact integer ("5" -> 5, "-3" -> -3) and to a
\* float when its text has a fractional or exponent component ("5.50" ->
\* 5.5); the same for a number that is the member of a map or of a list.
C16_IntFloat ==
    decoded # Pending =>
        /\ IsTagged(raw_value, "N") =>
             IntFloatRule(Val(Val(raw_value)["N"]), decoded)
        /\ NumberInMap(raw_value) =>
             LET t == Val(Val(Val(Val(raw_value)["M"])["x"])["N"])
             IN  IsNumberText(t) =>
                    /\ ~Raised(decoded)
                    /\ IntFloatRule(t, Val(decoded)["x"])
        /\ NumberInList(raw_value) =>
             LET t == Val(Val(Val(Val(raw_value)["L"])[1])["N"])
             IN  IsNumberText(t) =>
                    /\ ~Raised(decoded)
                    /\ IntFloatRule(t, Val(decoded)[1])

\* What the decoder of script `prog` returns for v as an attribute of an item.
DecodeBy(prog, v) ==
    Attribute(IF prog = PAR THEN par_convert_dynamodb_item(PyDict("a" :> v))
              ELSE seq_convert_dynamodb_item(PyDict("a" :> v)))

\* C17: structural decoding, in both decoders.  A map-tagged value decodes to
\* a mapping with exactly the keys of the source map, the value under each
\* key being the decoding of the source value under that key; a list-tagged
\* value decodes to a list of the same length whose element k is the decoding
\* of source element k; a number set decodes to the list of its members as
\* floats, integral members included; a string set decodes to the list of its
\* strings in source order.  The decoding of a map, list or number set raises
\* exactly when the decoding of one of its members does.
C17_Structural ==
    decoded # Pending =>
        /\ IsTagged(raw_value, "M") =>
             LET m == Val(Val(raw_value)["M"])
                 outs == [k \in DOMAIN m |-> DecodeBy(program, m[k])]
             IN  IF \E k \in DOMAIN m : Raised(outs[k])
                 THEN Raised(decoded)
                 ELSE /\ TypeOf(decoded) = "dict"
                      /\ DOMAIN Val(decoded) = DOMAIN m
                      /\ \A k \in DOMAIN m : Val(decoded)[k] = outs[k]
        /\ IsTagged(raw_value, "L") =>
             LET l == Val(Val(raw_value)["L"])
                 outs == [k \in 1..Len(l) |-> DecodeBy(program, l[k])]
             IN  IF \E k \in 1..Len(l) : Raised(outs[k])
                 THEN Raised(decoded)
                 ELSE /\ TypeOf(decoded) = "list"
                      /\ Len(Val(decoded)) = Len(l)
                      /\ \A k \in 1..Len(l) : Val(decoded)[k] = outs[k]
        /\ IsTagged(raw_value, "NS") =>
             LET ns == Val(Val(raw_value)["NS"])
             IN  IF \E k \in 1..Len(ns) : ~IsNumberText(Val(ns[k]))
                 THEN Raised(decoded)
                 ELSE /\ TypeOf(decoded) = "list"
                      /\ Len(Val(decoded)) = Len(ns)
                      /\ \A k \in 1..Len(ns) :
                            Val(decoded)[k] = PyFloat(ValueOf(Val(ns[k])))
        /\ IsTagged(raw_value, "SS") =>
             decoded = PyList(Val(Val(raw_value)["SS"]))

\* A list holding a number and a number set with an integral member, decoded
\* by the parallel importer.
C17_Witness ==
    /\ program = PAR
    /\ raw_value = Tagged("L", PyList(<<Tagged("N", PyStr(<<"5", ".", "5", "0">>)),
                                        Tagged("NS", PyList(<<PyStr(<<"5">>),
                                                              PyStr(<<"5", ".", "5", "0">>)>>))>>))
    /\ decoded = PyList(<<PyFloat(<<55, -1>>),
                          PyList(<<PyFloat(<<5, 0>>), PyFloat(<<55, -1>>)>>)>>)

TagNames == {"S", "N", "B", "SS", "NS", "BS", "M", "L", "NULL", "BOOL"}

\* A map that carries no tag: a map already decoded by a client layer.
IsPlainDict(v) == TypeOf(v) = "dict" /\ DOMAIN Val(v) \cap TagNames = {}

\* The members of the plain map or list v, each decoded on its own by d.
MembersDecoded(prog, v) ==
    [k \in DOMAIN Val(v) |-> DecodeBy(prog, Val(v)[k])]

\* The decoding `out` of the plain map or list v goes through its members.
DecodedThroughMembers(prog, v, out) ==
    LET outs == MembersDecoded(prog, v)
    IN  IF \E k \in DOMAIN outs : Raised(outs[k])
        THEN Raised(out)
        ELSE out = <<TypeOf(v), outs>>

\* C18: partially pre-decoded input, in every decoder of the repository.  A
\* map or list that is not tagged is decoded member by member, each member
\* according to its runtime shape, so that a tagged value or a Decimal inside
\* it is converted to its canonical form.
C18_PreDecoded ==
    (decoded # Pending /\ (IsPlainDict(raw_value) \/ TypeOf(raw_value) = "list")) =>
        DecodedThroughMembers(program, raw_value, decoded)

\* A well-formed tagged value: one known tag, the payload of its type, a
\* number as a number text, the members of maps and lists well-formed.
RECURSIVE WellFormed(_)
WellFormed(v) ==
    /\ TypeOf(v) = "dict"
    /\ \E tag \in TagNames :
        /\ DOMAIN Val(v) = {tag}
        /\ LET p == Val(v)[tag]
           IN  CASE tag = "N" -> IsNumberText(Val(p))
                 [] tag = "NS" -> \A k \in 1..Len(Val(p)) : IsNumberText(Val(Val(p)[k]))
                 [] tag = "M" -> \A k \in DOMAIN Val(p) : WellFormed(Val(p)[k])
                 [] tag = "L" -> \A k \in 1..Len(Val(p)) : WellFormed(Val(p)[k])
                 [] OTHER -> TRUE

IntText(n) == IF n < 0 THEN <<"-">> \o NatText(0 - n) ELSE NatText(n)

\* A text of the number <<m, e>>.
TextOf(num) == IntText(num[1]) \o <<"e">> \o IntText(num[2])

\* A decoded value wrapped back into its tagged form.
RECURSIVE Wrap(_)
Wrap(c) ==
    CASE TypeOf(c) = "str" -> Tagged("S", c)
      [] TypeOf(c) \in {"int", "float"} -> Tagged("N", PyStr(TextOf(Val(c))))
      [] TypeOf(c) = "bool" -> Tagged("BOOL", c)
      [] TypeOf(c) = "None" -> Tagged("NULL", PyBool(TRUE))
      [] TypeOf(c) = "bytes" -> Tagged("B", c)
      [] TypeOf(c) = "list" ->
            Tagged("L", PyList([k \in 1..Len(Val(c)) |-> Wrap(Val(c)[k])]))
      [] TypeOf(c) = "dict" ->
            Tagged("M", PyDict([k \in DOMAIN Val(c) |-> Wrap(Val(c)[k])]))

\* Python's == on decoded values: an int and a float are equal when they are
\* the same number, lists and dicts are equal member by member.
RECURSIVE PyEq(_, _)
PyEq(a, b) ==
    IF TypeOf(a) \in {"int", "float"} /\ TypeOf(b) \in {"int", "float"}
    THEN Val(a) = Val(b)
    ELSE IF TypeOf(a) # TypeOf(b) THEN FALSE
    ELSE IF TypeOf(a) = "list"
    THEN /\ Len(Val(a)) = Len(Val(b))
         /\ \A k \in 1..Len(Val(a)) : PyEq(Val(a)[k], Val(b)[k])
    ELSE IF TypeOf(a) = "dict"
    THEN /\ DOMAIN Val(a) = DOMAIN Val(b)
         /\ \A k \in DOMAIN Val(a) : PyEq(Val(a)[k], Val(b)[k])
    ELSE a = b

\* C19: decoding is total and deterministic, with a round trip.  For every
\* well-formed tagged value the decoder returns without raising, a second call
\* on the same value returns an equal value, and the decoded value wrapped
\* back into its tagged form decodes to a value equal to the first decoding.
C19_TotalRoundTrip ==
    (decoded # Pending /\ WellFormed(raw_value)) =>
        /\ ~Raised(decoded)
        /\ PyEq(DecodeBy(program, raw_value), decoded)
        /\ PyEq(DecodeBy(program, Wrap(decoded)), decoded)

\* ----------------------------------------------------- claims on fault runs
\* C13: fixed inter-attempt delay.  Between two consecutive POSTs of the same
\* record the worker waits RETRY_DELAY, whether the earlier attempt ended with
\* an exception or with a response other than 200: a frame about to make a
\* second or later attempt has slept RETRY_DELAY since the attempt before.
C13_FixedDelay ==
    timed =>
        /\ \A b \in DOMAIN futures :
             (futures[b].pc = "post" /\ futures[b].attempt > 0) =>
                futures[b].waited = RETRY_DELAY_PAR
        /\ (call.pc = "post" /\ call.attempt > 0) => call.waited = RETRY_DELAY_SEQ

ValidConfiguration == num_workers > 0 /\ BATCH_SIZE > 0

\* The items of the scanned table the decoders cannot decode.
CorruptItems == {j \in 1..Len(items) : items[j].id.N \in DOMAIN corrupt}

\* C14: decode errors are record-local.  A record holding a value without a
\* known tag, or a number text that is no number, is skipped (no POST is made
\* for it) and counted as failed; the table goes on to its transfer with the
\* other records and its result is no error entry.
C14_DecodeErrorsLocal ==
    /\ [](\A id \in DOMAIN corrupt \cap DOMAIN log : log[id] = <<>>)
    /\ [][ (ValidConfiguration /\ pc = "scanned" /\ items # <<>>) =>
              pc' \in {"collect", "batches"} ]_vars
    /\ [][ (ValidConfiguration /\ pc # "scan" /\ items # <<>>
              /\ Len(results') > Len(results)) =>
              LET r == results'[Len(results')]
              IN  /\ ~r.error
                  /\ r.total = Len(items)
                  /\ r.failed >= Cardinality(CorruptItems) ]_vars

InvalidConfiguration ==
    \/ program = PAR /\ num_workers <= 0
    \/ program = SEQ /\ BATCH_SIZE <= 0

\* C15: configuration errors are fatal before any I/O.  With a batch size of
\* zero or below, or a worker count of zero, the job stops at its start: no
\* page of any table is read, no POST is made, no table is imported.
C15_ConfigFatal ==
    InvalidConfiguration =>
        /\ scans = <<>>
        /\ dynamo = <<>>
        /\ items = <<>>
        /\ results = <<>>
        /\ \A id \in DOMAIN log : log[id] = <<>>

\* ------------------------------------------------------------ later claims
\* C23: no upload before the scan is complete, in both importers.  While a
\* table is being scanned no POST has been made for it and no call that
\* sends is running; the scan is left only by the response that carries no
\* cursor, and the transfer is entered only from there; a table whose page
\* read fails gets a result without successes, no POST having been made.
C23_NoUploadBeforeScanComplete ==
    /\ [](pc \in {"scan", "scanned"} =>
            /\ \A id \in DOMAIN log : log[id] = <<>>
            /\ call = NoCall
            /\ Running = {})
    /\ [][ (pc = "scan" /\ pc' = "scanned") =>
              /\ last_key' = NoKey
              /\ dynamo'[Len(dynamo')].LastEvaluatedKey = NoKey ]_vars
    /\ [][ (pc' \in {"collect", "batches"} /\ pc \notin {"collect", "batches"}) =>
              /\ pc = "scanned"
              /\ last_key = NoKey ]_vars
    /\ [][ (pc = "scan" /\ Len(results') > Len(results)) =>
              /\ results'[Len(results')].success = 0
              /\ \A id \in DOMAIN log : log[id] = <<>> ]_vars

\* The second table is in the middle of its scan, items of its first page in
\* hand, after the first table was transferred.
C23_Witness ==
    /\ pc = "scan"
    /\ ti = 2
    /\ items # <<>>
    /\ last_key # NoKey
    /\ results[1].success > 0
    /\ log = <<>>

\* C25: the two tallies of the parallel importer agree.  When the result
\* loop of a table with at least one record has ended, the totals summed from
\* the futures equal the success and failed fields of the table's entry of
\* progress_stats, and so does the result returned for the table, whatever
\* the order in which the workers reported.
C25_TalliesAgree ==
    /\ (program = PAR /\ pc = "finished" /\ converted # <<>>) =>
          /\ tables_to_import[ti] \in DOMAIN progress_stats
          /\ total_success = progress_stats[tables_to_import[ti]].success
          /\ total_failed = progress_stats[tables_to_import[ti]].failed
    /\ program = PAR =>
          \A i \in 1..Len(results) :
              (~results[i].error /\ results[i].total > 0) =>
                 /\ results[i].table \in DOMAIN progress_stats
                 /\ results[i].success = progress_stats[results[i].table].success
                 /\ results[i].failed = progress_stats[results[i].table].failed

\* A table of several batches, with a success and a failure, has returned.
C25_Witness ==
    /\ program = PAR
    /\ Len(results) >= 1
    /\ ~results[1].error
    /\ results[1].success > 0
    /\ results[1].failed > 0
    /\ progress_stats[results[1].table].completed >= 2
    /\ results[1].success = progress_stats[results[1].table].success
    /\ results[1].failed = progress_stats[results[1].table].failed

\* The tags both decoders know.
CommonTags == {"S", "N", "BOOL", "NULL", "SS", "NS", "M", "L"}

\* A well-formed tagged value built from the common tags only, the members
\* of its maps and lists included.
RECURSIVE CommonForm(_)
CommonForm(v) ==
    /\ WellFormed(v)
    /\ \E tag \in CommonTags :
        /\ DOMAIN Val(v) = {tag}
        /\ LET p == Val(v)[tag]
           IN  CASE tag = "M" -> \A k \in DOMAIN Val(p) : CommonForm(Val(p)[k])
                 [] tag = "L" -> \A k \in 1..Len(Val(p)) : CommonForm(Val(p)[k])
                 [] OTHER -> TRUE

OtherProgram == IF program = PAR THEN SEQ ELSE PAR

\* C30: the two decoders agree on the common tags.  For a well-formed tagged
\* value built only from S, N, BOOL, NULL, SS, NS, M and L, nested ones
\* included, the decoder of the parallel importer and the decoder of the
\* sequential importer have the same outcome: equal results, or the same
\* exception: what one decoder made of the value is what the other makes of
\* it, so that a value on which the outcomes differ is outside that form.
C30_DecodersAgree ==
    (decoded # Pending /\ CommonForm(raw_value)) =>
        decoded = DecodeBy(OtherProgram, raw_value)

\* A list holding a number and a number set, decoded by the sequential
\* importer to what the parallel importer makes of it.
C30_Witness ==
    /\ program = SEQ
    /\ raw_value = Tagged("L", PyList(<<Tagged("N", PyStr(<<"5", ".", "5", "0">>)),
                                        Tagged("NS", PyList(<<PyStr(<<"5">>),
                                                              PyStr(<<"5", ".", "5", "0">>)>>))>>))
    /\ CommonForm(raw_value)
    /\ decoded = DecodeBy(PAR, raw_value)
    /\ ~Raised(decoded)

\* The record ids of a list of error details, in order.
RecordIds(errors) == [k \in 1..Len(errors) |-> errors[k].record_id]

NoDuplicates(seq) == \A j, k \in 1..Len(seq) : seq[j] = seq[k] => j = k

\* C29: the error list of the sequential importer.  A record that failed for
\* good has exactly one entry in the errors of its batch and a record that
\* succeeded has none, so that a batch holds as many entries as failures and
\* the table's all_errors lists each exhausted record once; the summary of a
\* table keeps the first min(cap, failed) entries, and the cap leaves the
\* failed count as it is: the number of records that exhausted their attempts.
C29_ErrorList ==
    /\ [](program = SEQ /\ call # NoCall =>
            /\ Len(call.errors) = call.failed
            /\ NoDuplicates(RecordIds(all_errors \o call.errors))
            /\ Range(RecordIds(all_errors \o call.errors)) = Exhausted
            /\ Range(RecordIds(call.errors)) \cap Succeeded = {})
    /\ [](program = SEQ /\ pc = "batches" => Len(all_errors) = total_failed)
    /\ [](program = SEQ =>
            \A i \in 1..Len(results) :
                (~results[i].error /\ results[i].total > 0) =>
                    Len(results[i].errors) = Min(MaxErrorDetails, results[i].failed))
    /\ [][ (program = SEQ /\ pc = "batches" /\ Len(results') > Len(results)) =>
              LET summary == results'[Len(results')]
              IN  /\ summary.failed = Cardinality(Exhausted)
                  /\ summary.failed = Len(all_errors)
                  /\ summary.errors = SubSeq(all_errors, 1, Len(summary.errors)) ]_vars

\* A table with more failed records than the summary keeps details of.
C29_Witness ==
    /\ program = SEQ
    /\ Len(results) = 1
    /\ results[1].failed = MaxErrorDetails + 1
    /\ results[1].success > 0
    /\ Len(results[1].errors) = MaxErrorDetails

\* The futures of the current table whose call returned, and those whose
\* call raised.
FrameDone(f) == f.pc = "done"

FrameRaised(f) == f.pc = "raised"

DoneFrames == SelectSeq(futures, FrameDone)

RaisedFrames == SelectSeq(futures, FrameRaised)

\* C22: batch-level error isolation.  When the call of one batch raised, the
\* result loop stays in the table's transfer, leaves the other futures and
\* the successes counted so far as they are, and goes on to collect every
\* other batch: at the end of the loop every future was collected, the
\* totals hold the counts of every batch that returned, and the table
\* returns a result that is no error entry.
C22_BatchIsolation ==
    /\ [][ \A b \in DOMAIN futures :
              (futures[b].pc = "raised" /\ ~futures[b].yielded /\ pc = "collect"
                 /\ b \in DOMAIN futures' /\ futures'[b].yielded) =>
                 /\ pc' = "collect"
                 /\ results' = results
                 /\ total_success' = total_success
                 /\ \A c \in DOMAIN futures \ {b} : futures'[c] = futures[c] ]_vars
    /\ [][ (pc = "collect" /\ RaisedFrames # <<>>) =>
              /\ pc' \in {"collect", "finished", "interrupted"}
              /\ results' = results ]_vars
    /\ []((program = PAR /\ pc = "finished") =>
            /\ \A b \in DOMAIN futures : futures[b].yielded
            /\ total_success = SumField(DoneFrames, "success")
            /\ total_failed >= SumField(DoneFrames, "failed"))
    /\ [][ (program = PAR /\ pc = "finished" /\ Len(results') > Len(results)) =>
              LET result == results'[Len(results')]
              IN  /\ ~result.error
                  /\ result.total = Len(converted)
                  /\ result.success = SumField(DoneFrames, "success") ]_vars

\* Of two batches one raised and the other one, which uploaded its record,
\* was collected and counted.
C22_Witness ==
    /\ program = PAR
    /\ pc = "finished"
    /\ Len(futures) = 2
    /\ \E b, c \in DOMAIN futures :
         /\ futures[b].pc = "raised"
         /\ futures[c].pc = "done"
         /\ futures[c].success > 0
    /\ total_success > 0

\* C26 as stated: a raised batch adds exactly BATCH_SIZE to the failed total,
\* whatever its length and its successes, it makes no report to
\* progress_stats, and success + failed = total holds only if the raised
\* batches were full.
C26_Original ==
    (program = PAR /\ pc = "finished" /\ RaisedFrames # <<>>) =>
        LET st == progress_stats[tables_to_import[ti]]
        IN  /\ total_success = SumField(DoneFrames, "success")
            /\ total_failed = SumField(DoneFrames, "failed")
                                + BATCH_SIZE * Len(RaisedFrames)
            /\ st.completed = Len(DoneFrames)
            /\ st.success = SumField(DoneFrames, "success")
            /\ st.failed = SumField(DoneFrames, "failed")
            /\ (total_success + total_failed = Len(converted)) <=>
                  (\A k \in 1..Len(RaisedFrames) :
                      Len(RaisedFrames[k].records) = BATCH_SIZE)

\* C26, amended: a raised batch adds exactly BATCH_SIZE to the failed total,
\* whatever its length and its successes; it has made its report to
\* progress_stats before it raised, so that progress_stats counts every batch
\* of the table, the raised ones included; success + failed = total holds
\* only if the raised batches were full.
C26_RaisedBatchAccounting ==
    (program = PAR /\ pc = "finished" /\ RaisedFrames # <<>>) =>
        LET st == progress_stats[tables_to_import[ti]]
        IN  /\ total_success = SumField(DoneFrames, "success")
            /\ total_failed = SumField(DoneFrames, "failed")
                                + BATCH_SIZE * Len(RaisedFrames)
            /\ st.completed = Len(futures)
            /\ st.success = SumField(futures, "success")
            /\ st.failed = SumField(futures, "failed")
            /\ (total_success + total_failed = Len(converted)) <=>
                  (\A k \in 1..Len(RaisedFrames) :
                      Len(RaisedFrames[k].records) = BATCH_SIZE)

\* A batch of one record, short of the batch size, uploaded its record and
\* raised: the table of one record returns no success and BATCH_SIZE failed.
C26_Witness ==
    /\ program = PAR
    /\ pc = "finished"
    /\ Len(futures) = 1
    /\ futures[1].pc = "raised"
    /\ futures[1].success = 1
    /\ Len(futures[1].records) < BATCH_SIZE
    /\ total_success = 0
    /\ total_failed = BATCH_SIZE
    /\ total_success + total_failed # Len(converted)
    /\ progress_stats[tables_to_import[ti]].success = 1

\* C24: errored tables count as zero failures.  Every entry recorded for a
\* table whose import raised has total, success and failed 0, a scan left by
\* an exception records such an entry, and a run in which no table that
\* returned has a failed record exits with status 0.
C24_ErroredTablesCountZero ==
    /\ [](\A i \in 1..Len(results) :
             results[i].error =>
                 results[i].total = 0 /\ results[i].success = 0 /\ results[i].failed = 0)
    /\ []((pc = "exit" /\ \A i \in 1..Len(results) :
                              ~results[i].error => results[i].failed = 0) =>
             exit_code = 0)
    /\ [][ (pc = "scan" /\ ti' > ti) =>
              /\ results'[Len(results')].error
              /\ results'[Len(results')].table = tables_to_import[ti] ]_vars

\* A run with an errored table and a table transferred in full has exited
\* with status 0.
C24_Witness ==
    /\ pc = "exit"
    /\ exit_code = 0
    /\ \E i, j \in 1..Len(results) :
         /\ results[i].error
         /\ ~results[j].error
         /\ results[j].success > 0

\* C27: the batch size of the sequential importer below 1.  With a negative
\* batch size no batch is planned and no POST is made; a table of N > 0
\* records returns the summary total = N, success = 0, failed = 0 and the run
\* exits with status 0.  With a batch size of 0 a table with records is
\* recorded as errored, and that from the end of its scan, never sooner.
C27_BatchSizeBelowOne ==
    /\ []((program = SEQ /\ BATCH_SIZE < 0) =>
            /\ call = NoCall
            /\ \A id \in DOMAIN log : log[id] = <<>>
            /\ pc = "batches" => LoopPositions = <<>>
            /\ \A i \in 1..Len(results) :
                 results[i].success = 0 /\ results[i].failed = 0
            /\ pc = "exit" => exit_code = 0)
    /\ [][ (program = SEQ /\ BATCH_SIZE < 0 /\ pc = "scanned" /\ items # <<>>
              /\ ~ConversionRaises(items)) =>
              pc' = "batches" ]_vars
    /\ [][ (program = SEQ /\ BATCH_SIZE < 0 /\ pc = "batches") =>
              /\ Len(results') = Len(results) + 1
              /\ results'[Len(results')] =
                    SummaryEntry(tables_to_import[ti], Len(items), 0, 0, <<>>) ]_vars
    /\ [][ (program = SEQ /\ BATCH_SIZE = 0 /\ Len(results') > Len(results)) =>
              /\ pc \in {"scan", "scanned"}
              /\ (pc = "scanned" /\ items # <<>>) => results'[Len(results')].error
              /\ (pc = "scan") => tables_to_import[ti] \in scan_errors' ]_vars
    /\ [][ (program = SEQ /\ BATCH_SIZE = 0 /\ pc = "scanned" /\ items # <<>>) =>
              /\ last_key = NoKey
              /\ results'[Len(results')].error
              /\ pc' # "batches" ]_vars

\* A run with batch size -1 has exited with status 0, its first table
\* holding every item a table may hold, none of them sent.
C27_Witness ==
    /\ program = SEQ
    /\ BATCH_SIZE < 0
    /\ pc = "exit"
    /\ exit_code = 0
    /\ results[1] = SummaryEntry(1, MaxFaultItems, 0, 0, <<>>)

\* C21: interrupt handling.  After an interrupt during a table's transfer no
\* batch that was still queued is started, a batch in flight is not cut
\* short, and the run does not end before the counts of the interrupted
\* table stand in its results.
C21_InterruptHandling ==
    /\ [][ pc = "interrupted" =>
              \A b \in DOMAIN futures :
                  /\ futures[b].pc = "queued" => futures'[b].pc = "queued"
                  /\ futures[b].pc = "post" => futures'[b].pc # "queued" ]_vars
    /\ [](pc = "killed" =>
            \E i \in 1..Len(results) :
                /\ results[i].table = tables_to_import[ti]
                /\ results[i].success = SumField(futures, "success")
                /\ results[i].failed = SumField(futures, "failed"))

\* The steps of a worker between taking progress_lock and giving it back.
LockBlock ==
    {"entry", "load_completed", "store_completed", "load_success", "store_success",
     "load_failed", "store_failed", "print"}

Submitted(b) == b \in DOMAIN futures /\ futures[b].pc = "queued"

\* The worker of batch b has made its report and given the lock back.
Reported(b) ==
    /\ b \in DOMAIN futures
    /\ futures[b].pc = "done"
    /\ progress_lock # b
    /\ futures[b].table_name \in DOMAIN progress_stats

\* C28: transfer termination and deadlock freedom.  Every batch submitted to
\* the pool makes its report and gives the lock back, having held it: a
\* worker is done only through the update block, which it enters by taking
\* the free lock.  Once the pool is open it is shut down and the import of
\* the table returns.  The holder of the lock is inside the update block, at
\* no POST and in no retry sleep, and the lock is taken only when it is free.
C28_Termination ==
    /\ \A b \in 1..RunMaxItems : Submitted(b) ~> Reported(b)
    /\ (pool = "open") ~> (pool = "shutdown" /\ pc \in {"scan", "summary"})
    /\ [][ \A b \in DOMAIN futures :
              (b \in DOMAIN futures' /\ futures'[b].pc # futures[b].pc) =>
                 /\ futures'[b].pc = "done" =>
                       (futures[b].pc = "print" /\ progress_lock = b /\ progress_lock' = 0)
                 /\ futures'[b].pc = "entry" =>
                       (futures[b].pc = "lock" /\ progress_lock = 0 /\ progress_lock' = b)
                 /\ futures'[b].pc = "print" => futures[b].pc = "store_failed" ]_vars
    /\ [][ pc = "collect" => (pc' = "collect" \/ (pc' = "finished" /\ pool' = "shutdown")) ]_vars
    /\ [](\A b \in DOMAIN futures :
             /\ progress_lock = b <=> futures[b].pc \in LockBlock
             /\ futures[b].pc \in LockBlock => futures[b].waited = 0)
    /\ [](progress_lock \in {0} \cup DOMAIN futures)
    /\ [][ progress_lock # 0 => progress_lock' \in {0, progress_lock} ]_vars

\* A worker waits for the lock another worker holds.
C28_Witness ==
    /\ Len(futures) = 2
    /\ progress_lock = 1
    /\ futures[1].pc = "store_success"
    /\ futures[2].pc = "lock"
====
